---- MODULE Spec2Model ----
(***************************************************************************)
(* godot-mcp E2E bridge: the controller-side BridgeClient (TypeScript,      *)
(* WebSocket + JSON-RPC correlation), the tool handlers that gate requests  *)
(* on cached capabilities, and the in-game TestBridge agent (GDScript).     *)
(*                                                                         *)
(* Two specifications share the module:                                    *)
(*   Spec       the BridgeClient and its tool handlers, against an          *)
(*              arbitrary WebSocket peer;                                   *)
(*   AgentSpec  the TestBridge dispatcher and its coroutines, against an    *)
(*              arbitrary sequence of connections, packets, ticks, timers.  *)
(***************************************************************************)
EXTENDS Integers, Sequences, FiniteSets, TLC

\* ------------------------------------------------------------------ bounds
\* connect() calls (one WebSocket object each) in one run of the client
MaxSockets == 2
\* requests (send() calls that reach the pending table) in one run
MaxRequests == 3
\* connections the agent's TCP server hands out in one run of the game
MaxPeers == 2
\* requests (with pairwise distinct ids) the agent receives in one run
MaxAgentRequests == 2
\* longest wait, in timer periods or frames: timeout_ms, count, drag steps
MaxTicks == 2

Sockets == 1..MaxSockets
ReqIds == 1..MaxRequests
Peers == 1..MaxPeers
AgentIds == 1..MaxAgentRequests

\* ----------------------------------------------------------- client state
VARIABLES
  ws,               \* BridgeClient.ws: 0 is null, else the socket object
  sock,             \* the WebSocket objects: readyState and attached listeners
  conn,             \* per connect() call: settled flag, promise, connectionTimeout
  pendingRequests,  \* keys of BridgeClient.pendingRequests
  req,              \* per send(): promise state, timer, where it was written
  capabilities,     \* BridgeClient.capabilities (NoCaps is null)
  wire,             \* request ids written with ws.send()
  micro,            \* promise reactions queued for the open handler of connect()
  uncaught,         \* an exception escaped an event listener: the process is gone
  last              \* the operation that ran last (and the tool called), for stating postconditions

clientVars == <<ws, sock, conn, pendingRequests, req, capabilities, wire, micro,
                uncaught, last>>

\* ------------------------------------------------------------ agent state
VARIABLES
  unsafe_mode,        \* TestBridge._unsafe_mode: "--unsafe" was on the command line
  headless,           \* DisplayServer.get_name() == "headless"
  ws_peer,            \* TestBridge._ws_peer: 0 is null, else the WebSocketPeer object
  peer,               \* ready state of each WebSocketPeer object
  pending_responses,  \* keys of TestBridge._pending_responses
  co,                 \* per request id: the handler's coroutine and what it awaits
  resp,               \* per request id: the responses produced, with their receiver
  origin,             \* per request id: the peer its packet arrived on
  alast               \* the step of the agent that ran last

agentVars == <<unsafe_mode, headless, ws_peer, peer, pending_responses, co, resp,
               origin, alast>>

\* ------------------------------------------- one operation in clock time
VARIABLES
  poll,             \* one _poll_condition coroutine with its clock, in milliseconds
  drag,             \* one _do_mouse_drag coroutine with the input events it injected
  procs,            \* the Godot processes the server spawned and its active-process slot
  call,             \* one tool call of a timed operation: the client's timer against the agent
  launch            \* one run_project_with_bridge call: its promise, timer, process and connect loop

\* poll before any wait_for_condition
NoPoll == [phase |-> "none", timeout_ms |-> 0, requested |-> 0, poll_interval_ms |-> 0,
           now |-> 0, due |-> 0, valid |-> TRUE, last_value |-> "null", evals |-> 0,
           reading |-> "null", sent |-> <<>>, bridgeTimeout |-> 0]

\* drag before any send_mouse_drag
NoDrag == [phase |-> "none", duration_ms |-> 0, steps |-> 0, i |-> 0, events |-> <<>>,
           sent |-> 0]

\* the most processes one run spawns
MaxProcesses == 3
Pids == 1..MaxProcesses

\* procs before any process is spawned; activeProcess 0 is null
NoProcs == [activeProcess |-> 0,
            status |-> [p \in Pids |-> "none"],
            by |-> [p \in Pids |-> "none"],
            settled |-> [p \in Pids |-> FALSE],
            result |-> "none"]

\* call before any timed tool is called
NoCall == [tool |-> "", arg |-> 0, phase |-> "none", timeoutMs |-> 0, due |-> 0,
           outcome |-> "none"]

\* launch before run_project_with_bridge is called.  resolves counts the calls of
\* resolve(), loops the connect-with-backoff loops started, i the connect attempts
\* begun, late those begun after the call had settled.
NoLaunch == [phase |-> "none", settled |-> FALSE, connecting |-> FALSE, timer |-> FALSE,
             proc |-> "none", loop |-> "none", i |-> 0, resolves |-> 0, loops |-> 0,
             late |-> 0, result |-> "none"]

sideVars == <<poll, drag, procs, call, launch>>
SideStart ==
  poll = NoPoll /\ drag = NoDrag /\ procs = NoProcs /\ call = NoCall /\ launch = NoLaunch

vars == <<clientVars, agentVars, sideVars>>

\* co[id] before request id has arrived
NoCo == [st |-> "unused", kind |-> "", on |-> "", left |-> 0, valid |-> TRUE,
         heard |-> FALSE, evals |-> 0, listening |-> FALSE, release |-> "none"]
NoStep == [op |-> "init", id |-> 0, out |-> <<>>, ran |-> {}, sync |-> FALSE]

\* the agent after _ready() and _start_server(), before any connection
AgentStart(unsafe, display) ==
  /\ unsafe_mode = unsafe
  /\ headless = display
  /\ ws_peer = 0
  /\ peer = [p \in Peers |-> "none"]
  /\ pending_responses = {}
  /\ co = [i \in AgentIds |-> NoCo]
  /\ resp = [i \in AgentIds |-> <<>>]
  /\ origin = [i \in AgentIds |-> 0]
  /\ alast = NoStep

\* capability tags a hello result may carry
Tags == {"input", "scene_tree", "state", "wait", "screenshot", "evaluate"}
NoCaps == {"<null>"}
BaseCaps == {"input", "scene_tree", "state", "wait"}
\* the capability arrays a peer answers hello with in this model
CapSets == {BaseCaps, BaseCaps \cup {"screenshot", "evaluate"}, {"state"}}

\* released: disconnect() has let go of the socket (kept for the properties)
NoSocket == [state |-> "none", opened |-> FALSE, onOpen |-> FALSE, onMessage |-> FALSE,
             onCloseError |-> "none", released |-> FALSE]
NoConn == [outcome |-> "none", settled |-> FALSE, timer |-> FALSE]
NoReq == [st |-> "unused", calls |-> 0, timer |-> FALSE, sock |-> 0, owner |-> 0,
          why |-> "none", by |-> 0]

\* The client's fields as one value, so that the methods compose as functions.
Cur == [ws |-> ws, sock |-> sock, conn |-> conn, pendingRequests |-> pendingRequests,
        req |-> req, capabilities |-> capabilities, wire |-> wire, micro |-> micro,
        uncaught |-> uncaught]

Commit(S) ==
  /\ ws' = S.ws
  /\ sock' = S.sock
  /\ conn' = S.conn
  /\ pendingRequests' = S.pendingRequests
  /\ req' = S.req
  /\ capabilities' = S.capabilities
  /\ wire' = S.wire
  /\ micro' = S.micro
  /\ uncaught' = S.uncaught
  /\ UNCHANGED <<agentVars, sideVars>>

\* isConnected(): this.ws !== null && this.ws.readyState === WebSocket.OPEN
isConnected(S) == S.ws # 0 /\ S.sock[S.ws].state = "OPEN"

\* The reaction of `await this.send('hello', ...)` in connect()'s open handler:
\* queued when the hello promise of connect call c settles.
RECURSIVE HelloReactions(_, _, _)
HelloReactions(rq, ids, ok) ==
  IF ids = {} THEN <<>>
  ELSE LET r == CHOOSE x \in ids : \A y \in ids : x <= y
           rest == HelloReactions(rq, ids \ {r}, ok)
       IN IF rq[r].owner # 0
          THEN <<[c |-> rq[r].owner, ok |-> ok, caps |-> NoCaps]>> \o rest
          ELSE rest

\* rejectAllPending without its clearTimeout
rejectAllPending_keepsTimers(S, why) ==
  [S EXCEPT
     !.req = [r \in ReqIds |->
                IF r \in S.pendingRequests
                THEN [S.req[r] EXCEPT !.st = "rejected", !.calls = @ + 1, !.why = why]
                ELSE S.req[r]],
     !.micro = @ \o HelloReactions(S.req, S.pendingRequests, FALSE),
     !.pendingRequests = {}]

\* rejectAllPending(error): clear each timer, reject each promise, clear the map
rejectAllPending(S, why) ==
  [S EXCEPT
     !.req = [r \in ReqIds |->
                IF r \in S.pendingRequests
                THEN [S.req[r] EXCEPT !.timer = FALSE, !.st = "rejected",
                                      !.calls = @ + 1, !.why = why]
                ELSE S.req[r]],
     !.micro = @ \o HelloReactions(S.req, S.pendingRequests, FALSE),
     !.pendingRequests = {}]

\* ws.removeAllListeners() followed by ws.close() or ws.terminate(), or applied to a
\* socket that is already closing: readyState goes CLOSING and then CLOSED with no
\* listener left to see either, so the socket is recorded as CLOSED at once.
release(k) ==
  [k EXCEPT !.state = "CLOSED", !.onOpen = FALSE, !.onMessage = FALSE,
            !.onCloseError = "none"]

\* disconnect() closing the socket with its listeners still attached
disconnect_keepsListeners(S) ==
  LET R == rejectAllPending(S, "disconnected") IN
  IF R.ws # 0
  THEN [R EXCEPT
          !.sock[R.ws] = [@ EXCEPT !.released = TRUE,
                                   !.state = IF @ \in {"OPEN", "CONNECTING"}
                                             THEN "CLOSING" ELSE @],
          !.ws = 0,
          !.capabilities = NoCaps]
  ELSE [R EXCEPT !.capabilities = NoCaps]

\* disconnect()
disconnect(S) ==
  LET R == rejectAllPending(S, "disconnected") IN
  IF R.ws # 0
  THEN [R EXCEPT
          !.sock[R.ws] = [release(@) EXCEPT !.released = TRUE],
          !.ws = 0,
          !.capabilities = NoCaps]
  ELSE [R EXCEPT !.capabilities = NoCaps]

\* settle(err, caps) of connect call c
settle(S, c, ok) ==
  IF S.conn[c].settled THEN S
  ELSE [S EXCEPT !.conn[c] = [settled |-> TRUE, timer |-> FALSE,
                              outcome |-> IF ok THEN "resolved" ELSE "rejected"]]

\* randomUUID(): an id no request has used
Unused(S) == {r \in ReqIds : S.req[r].st = "unused"}
randomUUID(S) == CHOOSE r \in Unused(S) : \A y \in Unused(S) : r <= y

\* send() without the isConnected() check: the request is registered and written
\* whatever the state of the socket
send_unchecked(S, owner) ==
  LET id == randomUUID(S) IN
  [S EXCEPT !.pendingRequests = @ \cup {id},
            !.req[id] = [NoReq EXCEPT !.st = "pending", !.timer = TRUE,
                                      !.sock = S.ws, !.owner = owner],
            !.wire = @ \cup {id}]

\* send(method, params, timeoutMs); owner is the connect call awaiting it (hello), or 0
send(S, owner) ==
  IF ~isConnected(S)
  THEN [S EXCEPT !.micro = IF owner # 0
                           THEN Append(@, [c |-> owner, ok |-> FALSE, caps |-> NoCaps])
                           ELSE @]
  ELSE LET id == randomUUID(S) IN
       [S EXCEPT !.pendingRequests = @ \cup {id},
                 !.req[id] = [NoReq EXCEPT !.st = "pending", !.timer = TRUE,
                                           !.sock = S.ws, !.owner = owner],
                 !.wire = @ \cup {id}]

\* setupHandlers(): the persistent close/error handlers go on whatever this.ws is now
setupHandlers(S) ==
  IF S.ws = 0 THEN S
  ELSE [S EXCEPT !.sock[S.ws].onCloseError = "persistent"]

\* Inbound texts, by what JSON.parse and the id lookup make of them:
\*   malformed  not JSON (JSON.parse throws, caught)
\*   null       the JSON document null (parsed.id throws a TypeError)
\*   noid       any other JSON value without an id, or with id null
\*   response   an object with an id; id 0 stands for an id the client never issued
Msg(kind, id, err, caps) == [kind |-> kind, id |-> id, err |-> err, caps |-> caps]

\* handleMessage correlating by arrival order: a response settles the oldest entry
handleMessage_headOfLine(S, m) ==
  IF m.kind = "malformed" THEN S
  ELSE IF m.kind = "null" THEN [S EXCEPT !.uncaught = TRUE]
  ELSE IF m.kind = "noid" THEN S
  ELSE IF m.id \notin S.pendingRequests THEN S
  ELSE LET h == CHOOSE x \in S.pendingRequests : \A y \in S.pendingRequests : x <= y IN
       [S EXCEPT
          !.req[h] = [@ EXCEPT !.timer = FALSE,
                               !.st = IF m.err THEN "rejected" ELSE "resolved",
                               !.calls = @ + 1, !.why = "response", !.by = m.id],
          !.pendingRequests = @ \ {h},
          !.micro = IF S.req[h].owner # 0
                    THEN Append(@, [c |-> S.req[h].owner, ok |-> ~m.err, caps |-> m.caps])
                    ELSE @]

\* handleMessage settling a request without clearTimeout(pending.timeout)
handleMessage_keepsTimer(S, m) ==
  IF m.kind = "malformed" THEN S
  ELSE IF m.kind = "null" THEN [S EXCEPT !.uncaught = TRUE]
  ELSE IF m.kind = "noid" THEN S
  ELSE IF m.id \notin S.pendingRequests THEN S
  ELSE [S EXCEPT
          !.req[m.id] = [@ EXCEPT !.st = IF m.err THEN "rejected" ELSE "resolved",
                                  !.calls = @ + 1, !.why = "response", !.by = m.id],
          !.pendingRequests = @ \ {m.id},
          !.micro = IF S.req[m.id].owner # 0
                    THEN Append(@, [c |-> S.req[m.id].owner, ok |-> ~m.err, caps |-> m.caps])
                    ELSE @]

\* handleMessage(data)
handleMessage(S, m) ==
  IF m.kind = "malformed" THEN S
  ELSE IF m.kind = "null" THEN [S EXCEPT !.uncaught = TRUE]
  ELSE IF m.kind = "noid" THEN S
  ELSE IF m.id \notin S.pendingRequests THEN S
  ELSE [S EXCEPT
          !.req[m.id] = [@ EXCEPT !.timer = FALSE,
                                  !.st = IF m.err THEN "rejected" ELSE "resolved",
                                  !.calls = @ + 1, !.why = "response", !.by = m.id],
          !.pendingRequests = @ \ {m.id},
          !.micro = IF S.req[m.id].owner # 0
                    THEN Append(@, [c |-> S.req[m.id].owner, ok |-> ~m.err, caps |-> m.caps])
                    ELSE @]

\* the timeout callback of send()
requestTimeout(S, r) ==
  LET T == [S EXCEPT !.req[r].timer = FALSE] IN
  IF r \notin T.pendingRequests THEN T
  ELSE [T EXCEPT
          !.pendingRequests = @ \ {r},
          !.req[r] = [@ EXCEPT !.st = "rejected", !.calls = @ + 1, !.why = "timeout"],
          !.micro = IF T.req[r].owner # 0
                    THEN Append(@, [c |-> T.req[r].owner, ok |-> FALSE, caps |-> NoCaps])
                    ELSE @]

\* the connectionTimeout callback of connect call c
connectionTimeout(S, c) ==
  LET T == [S EXCEPT !.conn[c].timer = FALSE]
      U == IF T.ws # 0
           THEN [T EXCEPT !.sock[T.ws] = release(@), !.ws = 0]
           ELSE T
  IN settle(U, c, FALSE)

\* connect(): disconnect an open socket, then create the socket and its listeners
connect(S, s) ==
  LET D == IF isConnected(S) THEN disconnect(S) ELSE S IN
  [D EXCEPT !.conn[s] = [outcome |-> "pending", settled |-> FALSE, timer |-> TRUE],
            !.sock[s] = [state |-> "CONNECTING", opened |-> FALSE, onOpen |-> TRUE,
                         onMessage |-> TRUE, onCloseError |-> "connect",
                         released |-> FALSE],
            !.ws = s]

\* the 'open' listener of connect call s, up to its await
onOpen(S, s) == send(S, s)

\* the rest of the 'open' listener, run when the hello promise has settled
helloReaction(S, h) ==
  IF h.ok
  THEN settle(setupHandlers([S EXCEPT !.capabilities = h.caps]), h.c, TRUE)
  ELSE settle(disconnect(S), h.c, FALSE)

\* the 'error' listener a socket carries (connect()'s or setupHandlers()'s)
onError(S, s) ==
  IF S.sock[s].onCloseError = "connect"
  THEN settle([S EXCEPT !.ws = 0], s, FALSE)
  ELSE IF S.sock[s].onCloseError = "persistent"
  THEN [rejectAllPending(S, "wserror") EXCEPT !.ws = 0, !.capabilities = NoCaps]
  ELSE S

\* the 'close' listener a socket carries (connect()'s or setupHandlers()'s)
onClose(S, s) ==
  IF S.sock[s].onCloseError = "connect"
  THEN settle([S EXCEPT !.ws = 0], s, FALSE)
  ELSE IF S.sock[s].onCloseError = "persistent"
  THEN [rejectAllPending(S, "closed") EXCEPT !.ws = 0, !.capabilities = NoCaps]
  ELSE S

\* ------------------------------------------------------------ tool handlers
\* The E2E tools that reach the bridge, and the handler handleE2ETool routes each to.
InputTools == {"send_key", "send_mouse_click", "send_mouse_move", "send_mouse_drag",
               "send_input_action"}
SceneTreeTools == {"get_scene_tree", "get_node_properties", "find_nodes", "get_viewport_info"}
StateTools == {"call_method", "get_singleton"}
ScreenshotTools == {"take_screenshot", "get_pixel_color"}
UngatedTools == {"reset_scene", "load_scene"}
WaitTools == {"wait_for_condition", "wait_for_signal"}
BridgeTools == InputTools \cup SceneTreeTools \cup StateTools \cup ScreenshotTools
               \cup UngatedTools \cup WaitTools \cup {"evaluate_expression", "wait_frames"}

\* requiredCapability handed to handleBridgePassthrough ("" when none is)
requiredCapability(m) ==
  IF m \in InputTools THEN "input"
  ELSE IF m \in SceneTreeTools THEN "scene_tree"
  ELSE IF m \in StateTools THEN "state"
  ELSE IF m = "wait_frames" THEN "wait"
  ELSE IF m \in ScreenshotTools THEN "screenshot"
  ELSE ""

\* handleBridgePassthrough: what the checks before bridge.send decide
handleBridgePassthrough(S, m) ==
  IF ~isConnected(S) THEN "not_connected"
  ELSE IF requiredCapability(m) # "" /\ S.capabilities # NoCaps
          /\ requiredCapability(m) \notin S.capabilities THEN "unsupported"
  ELSE "send"

\* handleEvaluateExpression: what the checks before bridge.send decide
handleEvaluateExpression(S) ==
  IF ~isConnected(S) THEN "not_connected"
  ELSE IF S.capabilities # NoCaps /\ "evaluate" \notin S.capabilities THEN "unsupported"
  ELSE "send"

\* handleWaitTool without the check of 'evaluate' for wait_for_condition
handleWaitTool_waitOnly(S, m) ==
  IF ~isConnected(S) THEN "not_connected"
  ELSE IF S.capabilities # NoCaps /\ "wait" \notin S.capabilities THEN "unsupported"
  ELSE "send"

\* handleWaitTool: what the checks before bridge.send decide
handleWaitTool(S, m) ==
  IF ~isConnected(S) THEN "not_connected"
  ELSE IF S.capabilities # NoCaps /\ "wait" \notin S.capabilities THEN "unsupported"
  ELSE IF m = "wait_for_condition" /\ S.capabilities # NoCaps
          /\ "evaluate" \notin S.capabilities THEN "unsupported"
  ELSE "send"

\* handleE2ETool: the routing by tool name
handleE2ETool(S, m) ==
  IF m = "evaluate_expression" THEN handleEvaluateExpression(S)
  ELSE IF m \in WaitTools THEN handleWaitTool(S, m)
  ELSE handleBridgePassthrough(S, m)

\* ----------------------------------------------------------- client actions
\* Listeners and tool calls run to completion; a queued promise reaction runs
\* before any other event; nothing runs once an exception has escaped.
Idle == micro = <<>> /\ ~uncaught

\* sockets whose 'open' listener will still call send('hello')
Armed == {s \in Sockets : sock[s].state = "CONNECTING" /\ sock[s].onOpen}
\* ids left for a new request once every armed socket has sent its hello
Spare == Cardinality(Unused(Cur)) - Cardinality(Armed)

\* the messages a peer may deliver on socket s
Inbound(s) ==
  {Msg(k, 0, FALSE, NoCaps) : k \in {"malformed", "null", "noid"}}
  \cup {Msg("response", 0, e, NoCaps) : e \in BOOLEAN}
  \cup {Msg("response", r, TRUE, NoCaps) : r \in {x \in wire : req[x].sock = s}}
  \cup {Msg("response", r, FALSE, NoCaps) : r \in {x \in wire : req[x].sock = s /\ req[x].owner = 0}}
  \cup {Msg("response", r, FALSE, c) : r \in {x \in wire : req[x].sock = s /\ req[x].owner # 0},
                                       c \in CapSets}

\* a caller invokes connect()
Connect ==
  /\ Idle
  /\ Spare >= 1
  /\ \E s \in Sockets :
       /\ sock[s].state = "none"
       /\ \A x \in Sockets : sock[x].state = "none" => s <= x
       /\ Commit(connect(Cur, s))
       /\ last' = [tool |-> "", op |-> "connect", arg |-> 0, res |-> ""]

\* the connectionTimeout of connect call c fires
ConnectionTimeout(c) ==
  /\ Idle
  /\ conn[c].timer
  /\ Commit(connectionTimeout(Cur, c))
  /\ last' = [tool |-> "", op |-> "connectionTimeout", arg |-> 0, res |-> ""]

\* socket s opens
SocketOpen(s) ==
  /\ Idle
  /\ sock[s].state = "CONNECTING"
  /\ LET O == [Cur EXCEPT !.sock[s].state = "OPEN", !.sock[s].opened = TRUE] IN
     Commit(IF sock[s].onOpen THEN onOpen(O, s) ELSE O)
  /\ last' = [tool |-> "", op |-> "open", arg |-> 0, res |-> ""]

\* socket s fails: the library starts closing it and emits 'error'
SocketError(s) ==
  /\ Idle
  /\ sock[s].state \in {"CONNECTING", "OPEN"}
  /\ Commit(onError([Cur EXCEPT !.sock[s].state = "CLOSING"], s))
  /\ last' = [tool |-> "", op |-> IF sock[s].opened THEN "lost" ELSE "failed",
              arg |-> Cardinality(pendingRequests), res |-> sock[s].onCloseError]

\* the peer's close frame arrives on socket s: readyState CLOSING, no event yet
PeerClosing(s) ==
  /\ Idle
  /\ sock[s].state = "OPEN"
  /\ Commit([Cur EXCEPT !.sock[s].state = "CLOSING"])
  /\ last' = [tool |-> "", op |-> "closing", arg |-> 0, res |-> ""]

\* socket s is closed: readyState CLOSED and 'close' is emitted
SocketClose(s) ==
  /\ Idle
  /\ sock[s].state \in {"OPEN", "CLOSING"}
  /\ Commit([onClose([Cur EXCEPT !.sock[s].state = "CLOSED"], s)
               EXCEPT !.sock[s] = release(@)])
  /\ last' = [tool |-> "", op |-> IF sock[s].opened THEN "lost" ELSE "failed",
              arg |-> Cardinality(pendingRequests), res |-> sock[s].onCloseError]

\* a message arrives on socket s and its 'message' listener runs
Deliver(s) ==
  /\ Idle
  /\ sock[s].state = "OPEN"
  /\ sock[s].onMessage
  /\ \E m \in Inbound(s) :
       /\ Commit(handleMessage(Cur, m))
       /\ last' = [tool |-> "", op |-> "message", arg |-> m.id,
                   res |-> IF m.kind # "response" THEN m.kind
                           ELSE IF m.id \notin pendingRequests THEN "unmatched"
                           ELSE IF m.err THEN "error" ELSE "result"]

\* the queued reaction of an open handler runs
HelloReaction ==
  /\ ~uncaught
  /\ micro # <<>>
  /\ Commit(helloReaction([Cur EXCEPT !.micro = Tail(@)], Head(micro)))
  /\ last' = [tool |-> "", op |-> "helloReaction", arg |-> 0, res |-> ""]

\* the timer of request r fires.  A hello request's timer has the duration of its
\* connect call's connectionTimeout and was started after it, so it fires after it.
RequestTimeout(r) ==
  /\ Idle
  /\ req[r].timer
  /\ req[r].owner # 0 => ~conn[req[r].owner].timer
  /\ Commit(requestTimeout(Cur, r))
  /\ last' = [tool |-> "", op |-> "requestTimeout", arg |-> 0, res |-> ""]

\* a caller invokes disconnect() (the disconnect_from_game tool)
Disconnect ==
  /\ Idle
  /\ Commit(disconnect(Cur))
  /\ last' = [tool |-> "", op |-> "disconnect", arg |-> Cardinality(pendingRequests), res |-> ""]

\* a caller invokes bridge tool m
ToolCall(m) ==
  /\ Idle
  /\ LET d == handleE2ETool(Cur, m) IN
     /\ d = "send" => Spare >= 1
     /\ Commit(IF d = "send" THEN send(Cur, 0) ELSE Cur)
     /\ last' = [tool |-> m, op |-> "tool", arg |-> 0, res |-> d]

ClientStart ==
  /\ ws = 0
  /\ sock = [s \in Sockets |-> NoSocket]
  /\ conn = [s \in Sockets |-> NoConn]
  /\ pendingRequests = {}
  /\ req = [r \in ReqIds |-> NoReq]
  /\ capabilities = NoCaps
  /\ wire = {}
  /\ micro = <<>>
  /\ uncaught = FALSE
  /\ last = [tool |-> "", op |-> "init", arg |-> 0, res |-> ""]

\* the client alone: the game runs with neither --unsafe nor a headless display
Init == ClientStart /\ AgentStart(FALSE, FALSE) /\ SideStart

Next ==
  \/ Connect
  \/ Disconnect
  \/ HelloReaction
  \/ \E c \in Sockets : ConnectionTimeout(c)
  \/ \E s \in Sockets : SocketOpen(s)
  \/ \E s \in Sockets : SocketError(s)
  \/ \E s \in Sockets : PeerClosing(s)
  \/ \E s \in Sockets : SocketClose(s)
  \/ \E s \in Sockets : Deliver(s)
  \/ \E r \in ReqIds : RequestTimeout(r)
  \/ \E m \in BridgeTools : ToolCall(m)

Spec == Init /\ [][Next]_vars

\* Timers fire unless cleared, and a queued promise reaction runs.
FairSpec ==
  /\ Spec
  /\ WF_vars(HelloReaction)
  /\ \A c \in Sockets : WF_vars(ConnectionTimeout(c))
  /\ \A r \in ReqIds : WF_vars(RequestTimeout(r))

\* ============================================================ the agent
\* TestBridge (test_bridge.gd).  A handler runs from its packet to its first
\* await or to its return without interleaving; a coroutine runs from the
\* signal that resumes it to its next await or to its return.

\* The agent's fields as one value, so that the functions compose.
\* out and ran collect what one step does: the responses it produces, in order,
\* and what it executes on behalf of the caller ("expression", "blocked").
ACur == [ws_peer |-> ws_peer, peer |-> peer, pending_responses |-> pending_responses,
         co |-> co, resp |-> resp, origin |-> origin, unsafe_mode |-> unsafe_mode,
         out |-> <<>>, ran |-> {}]

ACommit(A) ==
  /\ ws_peer' = A.ws_peer
  /\ peer' = A.peer
  /\ pending_responses' = A.pending_responses
  /\ co' = A.co
  /\ resp' = A.resp
  /\ origin' = A.origin
  /\ unsafe_mode' = A.unsafe_mode
  /\ UNCHANGED <<headless, clientVars, sideVars>>

\* the record of a step: what ran, for which request, and what it did
Step(op, id, A) == [op |-> op, id |-> id, out |-> A.out, ran |-> A.ran, sync |-> FALSE]

\* the peer send_text() writes to; 0 when _send_raw_response returns early
receiver(A) == IF A.ws_peer # 0 /\ A.peer[A.ws_peer] = "OPEN" THEN A.ws_peer ELSE 0

\* _send_raw_response(id, result, error): code 0 is a result, res what the
\* result says ("ok"; "satisfied" or "timeout" for wait_for_condition;
\* "not_received" for the timeout of wait_for_signal).  resp records every
\* response produced for a request id, with receiver 0 when nothing was written
\* and with the number of Expression.execute calls that preceded it; id 0 is the
\* JSON null the response carries when the message had no id.
send_raw_response(A, id, code, res) ==
  LET msg == [id |-> id, to |-> receiver(A), code |-> code, res |-> res] IN
  IF id = 0 THEN [A EXCEPT !.out = Append(@, msg)]
  ELSE [A EXCEPT !.out = Append(@, msg),
                 !.resp[id] = Append(@, [to |-> receiver(A), code |-> code, res |-> res,
                                         evals |-> A.co[id].evals])]

send_response(A, id, res) ==
  [send_raw_response(A, id, 0, res) EXCEPT !.pending_responses = @ \ {id}]

send_error(A, id, code) ==
  [send_raw_response(A, id, code, "error") EXCEPT !.pending_responses = @ \ {id}]

\* _pending_responses[str(id)] = true
mark(A, id) == [A EXCEPT !.pending_responses = @ \cup {id}]
\* the handler or coroutine of request id returns: its frame is gone; a lambda
\* it connected to a signal stays connected until something disconnects it
returned(A, id) ==
  [A EXCEPT !.co[id] = [NoCo EXCEPT !.st = "done", !.listening = A.co[id].listening,
                                    !.release = A.co[id].release]]
\* a tap or a click injects the press event; co[id].release is "due" from then
\* until the matching release event is injected
press(A, id) == [A EXCEPT !.co[id].release = "due"]
release_event(A, id) == [A EXCEPT !.co[id].release = "done"]
\* the coroutine of request id awaits a signal: a SceneTreeTimer's timeout,
\* SceneTree.process_frame or RenderingServer.frame_post_draw
suspend(A, id, on, left) ==
  [A EXCEPT !.co[id].st = "await", !.co[id].on = on, !.co[id].left = left]
\* a runtime error (a typed variable or parameter given a value of another
\* type) ends the handler where it stands; nothing is sent
abort(A, id) == [A EXCEPT !.co[id] = [NoCo EXCEPT !.st = "aborted"]]

\* ------------------------------------------------------- request parameters
\* Each request carries a case for its parameters:
\*   a  the first required parameter (key, x/y, node_path, expression, ...):
\*      "missing", "badtype" (not a String), "invalid" (unknown key, node not
\*      found, expression that does not parse, path that does not load), "ok"
\*   b  the second one (action, button, method_name, base_node_path, ...)
\*   n  timeout_ms, count or duration_ms, in timer periods or frames
\*   r  what the first evaluation of the expression gives
Param(a, b, n, r) == [a |-> a, b |-> b, n |-> n, r |-> r]
NoParam == Param("ok", "ok", 0, "falsy")
Ticks == 0..MaxTicks
Evaluations == {"truthy", "falsy", "failed"}
Textures == {"ok", "no_texture", "no_image", "out_of_bounds"}

max(x, y) == IF x >= y THEN x ELSE y

\* ------------------------------------------------------------------ handlers
handle_hello(A, id, p) == returned(send_response(A, id, "ok"), id)

handle_send_key(A, id, p) ==
  IF p.a = "badtype" THEN abort(A, id)
  ELSE IF p.a \in {"missing", "invalid"} THEN returned(send_error(A, id, -32602), id)
  ELSE IF p.b \in {"press", "release"} THEN returned(send_response(A, id, "ok"), id)
  ELSE IF p.b = "tap" THEN suspend(press(mark(A, id), id), id, "timer", 1)
  ELSE returned(send_error(A, id, -32602), id)

\* the rest of _handle_send_key once the hold timer has fired
send_key_release(A, id) == returned(send_response(release_event(A, id), id, "ok"), id)

\* the press, the 50 ms timer whose timeout the release lambda is connected to,
\* and the response
handle_send_mouse_click(A, id, p) ==
  IF p.a = "missing" \/ p.b = "invalid" THEN returned(send_error(A, id, -32602), id)
  ELSE returned(send_response(press(A, id), id, "ok"), id)

handle_send_mouse_move(A, id, p) ==
  IF p.a = "missing" THEN returned(send_error(A, id, -32602), id)
  ELSE returned(send_response(A, id, "ok"), id)

\* _do_mouse_drag up to its first await: steps = max(1, duration_ms / 16)
do_mouse_drag(A, id, duration) == suspend(A, id, "timer", max(1, duration))

handle_send_mouse_drag(A, id, p) ==
  IF p.a = "missing" \/ p.b = "invalid" THEN returned(send_error(A, id, -32602), id)
  ELSE do_mouse_drag(mark(A, id), id, p.n)

\* one more turn of the loop of _do_mouse_drag, after a 16 ms timer
mouse_drag_step(A, id) ==
  IF A.co[id].left > 1 THEN suspend(A, id, "timer", A.co[id].left - 1)
  ELSE returned(send_response(A, id, "ok"), id)

handle_send_input_action(A, id, p) ==
  IF p.a = "badtype" THEN abort(A, id)
  ELSE IF p.a = "missing" THEN returned(send_error(A, id, -32602), id)
  ELSE IF p.b \in {"press", "release"} THEN returned(send_response(A, id, "ok"), id)
  ELSE IF p.b = "tap" THEN returned(send_response(press(A, id), id, "ok"), id)
  ELSE returned(send_error(A, id, -32602), id)

handle_get_scene_tree(A, id, p) ==
  IF p.a = "badtype" THEN abort(A, id)
  ELSE IF p.a = "invalid" THEN returned(send_error(A, id, -32602), id)
  ELSE returned(send_response(A, id, "ok"), id)

handle_get_node_properties(A, id, p) ==
  IF p.a = "badtype" THEN abort(A, id)
  ELSE IF p.a \in {"missing", "invalid"} THEN returned(send_error(A, id, -32602), id)
  ELSE IF p.b \in {"star", "array"} THEN returned(send_response(A, id, "ok"), id)
  ELSE returned(send_error(A, id, -32602), id)

handle_find_nodes(A, id, p) ==
  IF p.a = "badtype" THEN abort(A, id)
  ELSE IF p.a = "invalid" THEN returned(send_error(A, id, -32602), id)
  ELSE returned(send_response(A, id, "ok"), id)

handle_get_viewport_info(A, id, p) == returned(send_response(A, id, "ok"), id)

\* expr.execute([], base_node) for request id
execute(A, id) == [A EXCEPT !.ran = @ \cup {"expression"}, !.co[id].evals = @ + 1]

\* node.callv(method_name, method_args).  The cases of method_name (p.b):
\*   "blocked"    a name listed in _BLOCKED_METHODS
\*   "propagate"  Node.propagate_call with a blocked name as its argument: the
\*                engine calls that method on the node and its descendants
\*   "set_flag"   Object.set("_unsafe_mode", true); p.a = "self" is the node path
\*                of the TestBridge autoload itself
\*   "ok"         any other method
callv(A, p) ==
  IF p.b \in {"blocked", "propagate"} THEN [A EXCEPT !.ran = @ \cup {"blocked"}]
  ELSE IF p.b = "set_flag" /\ p.a = "self" THEN [A EXCEPT !.unsafe_mode = TRUE]
  ELSE A

\* _BLOCKED_METHODS is the case b = "blocked" of method_name
handle_call_method(A, id, p) ==
  IF p.a = "badtype" THEN abort(A, id)
  ELSE IF p.a = "missing" THEN returned(send_error(A, id, -32602), id)
  ELSE IF p.b = "badtype" THEN abort(A, id)
  ELSE IF p.b = "missing" THEN returned(send_error(A, id, -32602), id)
  ELSE IF ~A.unsafe_mode /\ p.b = "blocked" THEN returned(send_error(A, id, -32001), id)
  ELSE IF p.a = "invalid" THEN returned(send_error(A, id, -32602), id)
  ELSE returned(send_response(callv(A, p), id, "ok"), id)

handle_get_singleton(A, id, p) ==
  IF p.a = "badtype" THEN abort(A, id)
  ELSE IF p.a \in {"missing", "invalid"} THEN returned(send_error(A, id, -32602), id)
  ELSE returned(send_response(A, id, "ok"), id)

handle_evaluate_expression(A, id, p) ==
  IF ~A.unsafe_mode THEN returned(send_error(A, id, -32001), id)
  ELSE IF p.a = "badtype" THEN abort(A, id)
  ELSE IF p.a = "missing" \/ p.b = "invalid" \/ p.a = "invalid"
    THEN returned(send_error(A, id, -32602), id)
  ELSE IF p.r = "failed" THEN returned(send_error(execute(A, id), id, -32603), id)
  ELSE returned(send_response(execute(A, id), id, "ok"), id)

\* the loop of _poll_condition from the evaluation on: validity of base_node,
\* Expression.execute (r), truthiness, and the await of the poll timer
poll_evaluate(A, id, r) ==
  IF ~A.co[id].valid THEN returned(send_error(A, id, -32603), id)
  ELSE IF r = "failed" THEN returned(send_error(execute(A, id), id, -32603), id)
  ELSE IF r = "truthy" THEN returned(send_response(execute(A, id), id, "satisfied"), id)
  ELSE suspend(execute(A, id), id, "timer", A.co[id].left)

\* _poll_condition without the return that follows the timeout response
poll_condition_noReturn(A, id, r) ==
  IF A.co[id].left = 0 THEN poll_evaluate(send_response(A, id, "timeout"), id, r)
  ELSE poll_evaluate(A, id, r)

\* one turn of the loop of _poll_condition; co[id].left is what remains of
\* timeout_ms, in poll periods
poll_condition(A, id, r) ==
  IF A.co[id].left = 0 THEN returned(send_response(A, id, "timeout"), id)
  ELSE poll_evaluate(A, id, r)

handle_wait_for_condition(A, id, p) ==
  IF ~A.unsafe_mode THEN returned(send_error(A, id, -32001), id)
  ELSE IF p.a = "badtype" THEN abort(A, id)
  ELSE IF p.a = "missing" \/ p.b = "invalid" \/ p.a = "invalid"
    THEN returned(send_error(A, id, -32602), id)
  ELSE poll_condition([mark(A, id) EXCEPT !.co[id].left = p.n], id, p.r)

handle_wait_frames(A, id, p) ==
  IF p.n < 1 THEN returned(send_error(A, id, -32602), id)
  ELSE suspend(mark(A, id), id, "frame", p.n)

\* _do_wait_frames resumed by process_frame
wait_frames_step(A, id) ==
  IF A.co[id].left > 1 THEN suspend(A, id, "frame", A.co[id].left - 1)
  ELSE returned(send_response(A, id, "ok"), id)

\* one turn of the loop of _do_wait_for_signal.  The lambda connected to the
\* signal assigns its own copy of `received` (GDScript lambdas capture locals
\* by value), so the loop condition `not received` stays true.
\* The timeout branch leaves the lambda connected.
do_wait_for_signal_keepsListener(A, id) ==
  IF ~A.co[id].valid THEN returned(send_error(A, id, -32603), id)
  ELSE IF A.co[id].left = 0 THEN returned(send_response(A, id, "not_received"), id)
  ELSE suspend(A, id, "timer", A.co[id].left)

do_wait_for_signal(A, id) ==
  IF ~A.co[id].valid THEN returned(send_error(A, id, -32603), id)
  ELSE IF A.co[id].left = 0
    THEN returned(send_response([A EXCEPT !.co[id].listening = FALSE], id, "not_received"), id)
  ELSE suspend(A, id, "timer", A.co[id].left)

handle_wait_for_signal(A, id, p) ==
  IF p.a = "badtype" THEN abort(A, id)
  ELSE IF p.a = "missing" THEN returned(send_error(A, id, -32602), id)
  ELSE IF p.b = "badtype" THEN abort(A, id)
  ELSE IF p.b = "missing" \/ p.a = "invalid" \/ p.b = "invalid"
    THEN returned(send_error(A, id, -32602), id)
  ELSE do_wait_for_signal([mark(A, id) EXCEPT !.co[id].left = p.n,
                                             !.co[id].listening = TRUE], id)

handle_take_screenshot(A, id, p) ==
  IF headless THEN returned(send_error(A, id, -32002), id)
  ELSE suspend(mark(A, id), id, "post_draw", 1)

\* _do_take_screenshot after frame_post_draw, tex being the viewport texture
do_take_screenshot(A, id, tex) ==
  IF tex \in {"no_texture", "no_image"} THEN returned(send_error(A, id, -32603), id)
  ELSE returned(send_response(A, id, "ok"), id)

handle_get_pixel_color(A, id, p) ==
  IF headless THEN returned(send_error(A, id, -32002), id)
  ELSE IF p.a = "missing" THEN returned(send_error(A, id, -32602), id)
  ELSE IF p.a = "badtype" THEN abort(mark(A, id), id)
  ELSE suspend(mark(A, id), id, "post_draw", 1)

\* _do_get_pixel_color after frame_post_draw
do_get_pixel_color(A, id, tex) ==
  IF tex \in {"no_texture", "no_image"} THEN returned(send_error(A, id, -32603), id)
  ELSE IF tex = "out_of_bounds" THEN returned(send_error(A, id, -32602), id)
  ELSE returned(send_response(A, id, "ok"), id)

handle_reset_scene(A, id, p) == suspend(mark(A, id), id, "frame", 1)

\* the rest of _handle_reset_scene after process_frame
reset_scene_done(A, id, current) ==
  IF current THEN returned(send_response(A, id, "ok"), id)
  ELSE returned(send_error(A, id, -32603), id)

handle_load_scene(A, id, p) ==
  IF p.a = "badtype" THEN abort(A, id)
  ELSE IF p.a = "missing" THEN returned(send_error(A, id, -32602), id)
  ELSE IF p.a = "invalid" THEN returned(send_error(mark(A, id), id, -32603), id)
  ELSE suspend(mark(A, id), id, "frame", 1)

\* the rest of _handle_load_scene after process_frame
load_scene_done(A, id) == returned(send_response(A, id, "ok"), id)

Methods ==
  {"hello", "send_key", "send_mouse_click", "send_mouse_move", "send_mouse_drag",
   "send_input_action", "get_scene_tree", "get_node_properties", "find_nodes",
   "get_viewport_info", "call_method", "get_singleton", "evaluate_expression",
   "wait_for_condition", "wait_frames", "wait_for_signal", "take_screenshot",
   "get_pixel_color", "reset_scene", "load_scene"}

dispatch(A, id, method, p) ==
  CASE method = "hello" -> handle_hello(A, id, p)
    [] method = "send_key" -> handle_send_key(A, id, p)
    [] method = "send_mouse_click" -> handle_send_mouse_click(A, id, p)
    [] method = "send_mouse_move" -> handle_send_mouse_move(A, id, p)
    [] method = "send_mouse_drag" -> handle_send_mouse_drag(A, id, p)
    [] method = "send_input_action" -> handle_send_input_action(A, id, p)
    [] method = "get_scene_tree" -> handle_get_scene_tree(A, id, p)
    [] method = "get_node_properties" -> handle_get_node_properties(A, id, p)
    [] method = "find_nodes" -> handle_find_nodes(A, id, p)
    [] method = "get_viewport_info" -> handle_get_viewport_info(A, id, p)
    [] method = "call_method" -> handle_call_method(A, id, p)
    [] method = "get_singleton" -> handle_get_singleton(A, id, p)
    [] method = "evaluate_expression" -> handle_evaluate_expression(A, id, p)
    [] method = "wait_for_condition" -> handle_wait_for_condition(A, id, p)
    [] method = "wait_frames" -> handle_wait_frames(A, id, p)
    [] method = "wait_for_signal" -> handle_wait_for_signal(A, id, p)
    [] method = "take_screenshot" -> handle_take_screenshot(A, id, p)
    [] method = "get_pixel_color" -> handle_get_pixel_color(A, id, p)
    [] method = "reset_scene" -> handle_reset_scene(A, id, p)
    [] method = "load_scene" -> handle_load_scene(A, id, p)
    [] OTHER -> returned(send_error(A, id, -32601), id)

\* an inbound text frame, by what JSON.parse_string and the typed locals of
\* _handle_packet make of it
Packet(kind, id, method, p) == [kind |-> kind, id |-> id, method |-> method, p |-> p]

\* _handle_packet leaving a packet alone while an operation is pending
handle_packet_whenIdle(A, pkt) ==
  LET B == IF pkt.id = 0 THEN A
           ELSE [A EXCEPT !.co[pkt.id] = [NoCo EXCEPT !.st = "run", !.kind = pkt.method],
                          !.origin[pkt.id] = A.ws_peer]
  IN IF A.pending_responses # {} THEN A
     ELSE CASE pkt.kind \in {"invalid_json", "not_object"} ->
                 send_raw_response(B, 0, -32700, "error")
            [] pkt.kind = "bad_method_type" -> abort(B, pkt.id)
            [] pkt.kind = "no_method" ->
                 IF pkt.id = 0 THEN send_raw_response(B, 0, -32600, "error")
                 ELSE returned(send_raw_response(B, pkt.id, -32600, "error"), pkt.id)
            [] pkt.kind = "bad_params_type" -> abort(B, pkt.id)
            [] OTHER -> dispatch(B, pkt.id, pkt.method, pkt.p)

\* _handle_packet(text); the request's coroutine record starts here
handle_packet(A, pkt) ==
  LET B == IF pkt.id = 0 THEN A
           ELSE [A EXCEPT !.co[pkt.id] = [NoCo EXCEPT !.st = "run", !.kind = pkt.method],
                          !.origin[pkt.id] = A.ws_peer]
  IN CASE pkt.kind \in {"invalid_json", "not_object"} -> send_raw_response(B, 0, -32700, "error")
       [] pkt.kind = "bad_method_type" -> abort(B, pkt.id)
       [] pkt.kind = "no_method" ->
            IF pkt.id = 0 THEN send_raw_response(B, 0, -32600, "error")
            ELSE returned(send_raw_response(B, pkt.id, -32600, "error"), pkt.id)
       [] pkt.kind = "bad_params_type" -> abort(B, pkt.id)
       [] OTHER -> dispatch(B, pkt.id, pkt.method, pkt.p)

\* ------------------------------------------------------- the agent's inputs
Strings == {"missing", "badtype", "invalid", "ok"}
KeyActions == {"press", "release", "tap", "invalid"}

\* the parameter cases of a request for method m
Params(m) ==
  CASE m \in {"send_key", "send_input_action"} ->
         {Param(a, b, 0, "falsy") : a \in Strings, b \in KeyActions}
    [] m \in {"send_mouse_click", "send_mouse_move"} ->
         {Param(a, b, 0, "falsy") : a \in {"missing", "ok"}, b \in {"invalid", "ok"}}
    [] m = "get_pixel_color" ->
         {Param(a, "ok", 0, "falsy") : a \in {"missing", "badtype", "ok"}}
    [] m = "send_mouse_drag" ->
         {Param(a, b, n, "falsy") : a \in {"missing", "ok"}, b \in {"invalid", "ok"}, n \in Ticks}
    [] m \in {"get_scene_tree", "find_nodes", "get_singleton", "load_scene"} ->
         {Param(a, "ok", 0, "falsy") : a \in Strings}
    [] m = "get_node_properties" ->
         {Param(a, b, 0, "falsy") : a \in Strings, b \in {"star", "array", "other"}}
    [] m = "call_method" ->
         {Param(a, b, 0, "falsy") : a \in Strings \cup {"self"},
                                    b \in {"missing", "badtype", "blocked", "propagate",
                                           "set_flag", "ok"}}
    [] m = "evaluate_expression" ->
         {Param(a, b, 0, r) : a \in Strings, b \in {"invalid", "ok"}, r \in Evaluations}
    [] m = "wait_for_condition" ->
         {Param(a, b, n, r) : a \in Strings, b \in {"invalid", "ok"}, n \in Ticks,
                              r \in Evaluations}
    [] m = "wait_frames" -> {Param("ok", "ok", n, "falsy") : n \in Ticks}
    [] m = "wait_for_signal" ->
         {Param(a, b, n, "falsy") : a \in Strings, b \in Strings, n \in Ticks}
    [] OTHER -> {NoParam}

\* the packets a peer may send
Packets ==
  {Packet(k, 0, "", NoParam) : k \in {"invalid_json", "not_object", "no_method"}}
  \cup {Packet(k, i, "", NoParam) : k \in {"no_method", "bad_method_type"}, i \in AgentIds}
  \cup {Packet("bad_params_type", i, m, NoParam) : i \in AgentIds, m \in Methods}
  \cup UNION {{Packet("request", i, m, p) : i \in AgentIds, p \in Params(m)} :
              m \in Methods \cup {"no_such_method"}}

\* ids no request has carried yet: the requests of a run have distinct ids
Fresh == {i \in AgentIds : co[i].st = "unused"}

Waiting(on) == {i \in AgentIds : co[i].st = "await" /\ co[i].on = on}

\* -------------------------------------------------------- the agent's steps
\* _process: a TCP connection is available; the previous peer is closed and
\* dropped, accept_stream succeeds or not, the new peer is still connecting
\* the accept branch installing the new peer without closing the previous one
AcceptConnection_keepsPrevious(p) ==
  /\ peer[p] = "none"
  /\ \A q \in Peers : q < p => peer[q] # "none"
  /\ \E ok \in BOOLEAN :
       ACommit([ACur EXCEPT !.peer[p] = IF ok THEN "CONNECTING" ELSE "CLOSED",
                            !.ws_peer = IF ok THEN p ELSE 0])
  /\ alast' = Step("accept", 0, ACur)

AcceptConnection(p) ==
  /\ peer[p] = "none"
  /\ \A q \in Peers : q < p => peer[q] # "none"
  /\ \E ok \in BOOLEAN :
       LET A == ACur
           B == IF A.ws_peer # 0 THEN [A EXCEPT !.peer[A.ws_peer] = "CLOSED"] ELSE A
       IN ACommit([B EXCEPT !.peer[p] = IF ok THEN "CONNECTING" ELSE "CLOSED",
                            !.ws_peer = IF ok THEN p ELSE 0])
  /\ alast' = Step("accept", 0, ACur)

\* _process: poll() completes the WebSocket handshake of the current peer
PeerOpens ==
  /\ ws_peer # 0 /\ peer[ws_peer] = "CONNECTING"
  /\ ACommit([ACur EXCEPT !.peer[ws_peer] = "OPEN"])
  /\ alast' = Step("open", 0, ACur)

\* _process: poll() finds the current peer closed
PeerCloses ==
  /\ ws_peer # 0 /\ peer[ws_peer] \in {"CONNECTING", "OPEN"}
  /\ ACommit([ACur EXCEPT !.peer[ws_peer] = "CLOSED", !.ws_peer = 0])
  /\ alast' = Step("closed", 0, ACur)

\* the handlers that answer before they return, with no await
SyncMethods ==
  {"hello", "send_mouse_click", "send_mouse_move", "send_input_action",
   "get_scene_tree", "get_node_properties", "find_nodes", "get_viewport_info",
   "call_method", "get_singleton", "evaluate_expression"}

\* a request for a synchronous method whose parameters have the types the
\* handler declares
Synchronous(pkt) ==
  /\ pkt.kind = "request" /\ pkt.id # 0
  /\ pkt.method \in SyncMethods
  /\ pkt.p.a # "badtype" /\ pkt.p.b # "badtype"

\* _process: one packet of the open peer goes through _handle_packet; alast.sync
\* records whether it was a request for a synchronous method
HandlePacket(pkt) ==
  /\ ws_peer # 0 /\ peer[ws_peer] = "OPEN"
  /\ pkt.id = 0 \/ pkt.id \in Fresh
  /\ LET A == handle_packet(ACur, pkt) IN
     /\ ACommit(A)
     /\ alast' = [Step("packet", pkt.id, A) EXCEPT !.sync = Synchronous(pkt)]

\* the coroutine of request id resumed by the timeout of its SceneTreeTimer
timer_resume(A, id, r) ==
  LET B == [A EXCEPT !.co[id].left = max(0, @ - 1)] IN
  CASE A.co[id].kind = "send_key" -> send_key_release(A, id)
    [] A.co[id].kind = "send_mouse_drag" -> mouse_drag_step(A, id)
    [] A.co[id].kind = "wait_for_condition" -> poll_condition(B, id, r)
    [] OTHER -> do_wait_for_signal(B, id)

TimerFires(id) ==
  /\ id \in Waiting("timer")
  /\ \E r \in Evaluations :
       LET A == timer_resume(ACur, id, r) IN
       /\ ACommit(A)
       /\ alast' = Step("timer", id, A)

\* the timer of a deferred release fires: the lambda connected to its timeout
\* injects the release event of request id
ReleaseFires(id) ==
  /\ co[id].st = "done" /\ co[id].release = "due"
  /\ ACommit(release_event(ACur, id))
  /\ alast' = Step("release", id, ACur)

\* the coroutine of request id resumed by SceneTree.process_frame
frame_resume(A, id, current) ==
  CASE A.co[id].kind = "wait_frames" -> wait_frames_step(A, id)
    [] A.co[id].kind = "reset_scene" -> reset_scene_done(A, id, current)
    [] OTHER -> load_scene_done(A, id)

\* the coroutine of request id resumed by RenderingServer.frame_post_draw
post_draw_resume(A, id, tex) ==
  IF A.co[id].kind = "take_screenshot" THEN do_take_screenshot(A, id, tex)
  ELSE do_get_pixel_color(A, id, tex)

\* a signal resumes every coroutine that awaits it
RECURSIVE process_frame(_, _, _)
process_frame(A, ids, current) ==
  IF ids = {} THEN A
  ELSE LET i == CHOOSE x \in ids : \A y \in ids : x <= y
       IN process_frame(frame_resume(A, i, current), ids \ {i}, current)

RECURSIVE frame_post_draw(_, _, _)
frame_post_draw(A, ids, tex) ==
  IF ids = {} THEN A
  ELSE LET i == CHOOSE x \in ids : \A y \in ids : x <= y
       IN frame_post_draw(post_draw_resume(A, i, tex), ids \ {i}, tex)

\* a frame starts; current: the tree has a current scene
ProcessFrame ==
  /\ Waiting("frame") # {}
  /\ \E current \in BOOLEAN :
       LET A == process_frame(ACur, Waiting("frame"), current) IN
       ACommit(A) /\ alast' = Step("process_frame", 0, A)

\* a frame has been drawn; tex: what the viewport texture holds
FramePostDraw ==
  /\ Waiting("post_draw") # {}
  /\ \E tex \in Textures :
       LET A == frame_post_draw(ACur, Waiting("post_draw"), tex) IN
       ACommit(A) /\ alast' = Step("frame_post_draw", 0, A)

\* the signal wait_for_signal listens to is emitted: the lambda runs, appends
\* to signal_args, and CONNECT_ONE_SHOT disconnects it
SignalEmitted(id) ==
  /\ co[id].listening
  /\ ACommit([ACur EXCEPT !.co[id].listening = FALSE,
                          !.co[id].heard = (co[id].st = "await")])
  /\ alast' = Step("signal", id, ACur)

\* the node a waiting coroutine holds is freed (scene change, queue_free)
NodeFreed(id) ==
  /\ co[id].st = "await" /\ co[id].kind \in {"wait_for_condition", "wait_for_signal"}
  /\ co[id].valid
  /\ ACommit([ACur EXCEPT !.co[id].valid = FALSE, !.co[id].listening = FALSE])
  /\ alast' = Step("freed", id, ACur)

\* the game starts with or without --unsafe, with or without a display
AgentInit == ClientStart /\ SideStart /\ \E u \in BOOLEAN, h \in BOOLEAN : AgentStart(u, h)

AgentNext ==
  \/ PeerOpens
  \/ PeerCloses
  \/ ProcessFrame
  \/ FramePostDraw
  \/ \E p \in Peers : AcceptConnection(p)
  \/ \E pkt \in Packets : HandlePacket(pkt)
  \/ \E id \in AgentIds : TimerFires(id)
  \/ \E id \in AgentIds : ReleaseFires(id)
  \/ \E id \in AgentIds : SignalEmitted(id)
  \/ \E id \in AgentIds : NodeFreed(id)

AgentSpec == AgentInit /\ [][AgentNext]_vars

\* The engine emits process_frame and frame_post_draw every frame and fires
\* every SceneTreeTimer that was created.
AgentFairSpec ==
  /\ AgentSpec
  /\ WF_vars(ProcessFrame)
  /\ WF_vars(FramePostDraw)
  /\ \A id \in AgentIds : WF_vars(TimerFires(id))
  /\ \A id \in AgentIds : WF_vars(ReleaseFires(id))

\* ------------------------------------------- wait_for_condition in clock time
\* _poll_condition with Time.get_ticks_msec() and the SceneTreeTimer made
\* explicit.  start_time is 0; a timer of poll_interval_ms fires in the first
\* frame after its time has run out, up to MaxLate ms late and never early.
Timeouts == {0, 17, 40, 100}
Intervals == {-5, 0, 1, 10, 16, 40, 2500}
MaxLate == 1
\* the timeout_ms argument of a wait tool call: <<>> when the caller gives none
TimeoutParams == {<<>>} \cup {<<t>> : t \in Timeouts}
\* the poll intervals tried with the default timeout
LongIntervals == {i \in Intervals : i >= 1000}

\* handleWaitTool: godotTimeout = params.timeoutMs ?? 5000, and the timeout it
\* hands to bridge.send
godotTimeout(timeoutMs) == IF timeoutMs = <<>> THEN 5000 ELSE timeoutMs[1]
bridgeTimeout(timeoutMs) == godotTimeout(timeoutMs) + 2000

\* int(params.get("timeout_ms", 5000)) of _handle_wait_for_condition and
\* _handle_wait_for_signal
timeout_ms_param(timeoutMs) == IF timeoutMs = <<>> THEN 5000 ELSE timeoutMs[1]
\* what Expression.execute gives on a turn: has_execute_failed(), a falsy
\* value, or one of two truthy values
Readings == {"failed", "false", "one", "two"}
Truthy(r) == r \in {"one", "two"}

\* _handle_wait_for_condition taking poll_interval_ms as the caller gives it
wait_for_condition_start_unclamped(timeout, interval) ==
  [NoPoll EXCEPT !.phase = "registered", !.timeout_ms = timeout, !.requested = interval,
                 !.poll_interval_ms = interval]

\* _handle_wait_for_condition from the clamp of the interval to the call of
\* _poll_condition, for a request that passed the checks
wait_for_condition_start(timeout, interval) ==
  [NoPoll EXCEPT !.phase = "registered", !.timeout_ms = timeout, !.requested = interval,
                 !.poll_interval_ms = max(16, interval)]

\* one turn of the loop that reads a remembered falsy value instead of
\* evaluating again
poll_loop_memoized(P, r) ==
  LET elapsed == P.now
      result == IF P.evals > 0 THEN P.last_value ELSE r
      Q == [P EXCEPT !.reading = r] IN
  IF elapsed >= P.timeout_ms
    THEN [P EXCEPT !.phase = "done",
                   !.sent = Append(@, [kind |-> "timeout", value |-> P.last_value,
                                       elapsed_ms |-> elapsed, at |-> P.now])]
  ELSE IF ~P.valid
    THEN [P EXCEPT !.phase = "done",
                   !.sent = Append(@, [kind |-> "error", value |-> "null",
                                       elapsed_ms |-> elapsed, at |-> P.now])]
  ELSE IF result = "failed"
    THEN [Q EXCEPT !.phase = "done", !.evals = @ + 1,
                   !.sent = Append(@, [kind |-> "error", value |-> "null",
                                       elapsed_ms |-> elapsed, at |-> P.now])]
  ELSE IF Truthy(result)
    THEN [Q EXCEPT !.phase = "done", !.evals = @ + 1, !.last_value = result,
                   !.sent = Append(@, [kind |-> "satisfied", value |-> result,
                                       elapsed_ms |-> elapsed, at |-> P.now])]
  ELSE [Q EXCEPT !.phase = "await", !.evals = @ + 1, !.last_value = result,
                 !.due = P.now + P.poll_interval_ms]

\* one turn of the `while true` loop of _poll_condition at time P.now, r being
\* what the evaluation gives if the turn gets to it
poll_loop(P, r) ==
  LET elapsed == P.now
      Q == [P EXCEPT !.reading = r] IN
  IF elapsed >= P.timeout_ms
    THEN [P EXCEPT !.phase = "done",
                   !.sent = Append(@, [kind |-> "timeout", value |-> P.last_value,
                                       elapsed_ms |-> elapsed, at |-> P.now])]
  ELSE IF ~P.valid
    THEN [P EXCEPT !.phase = "done",
                   !.sent = Append(@, [kind |-> "error", value |-> "null",
                                       elapsed_ms |-> elapsed, at |-> P.now])]
  ELSE IF r = "failed"
    THEN [Q EXCEPT !.phase = "done", !.evals = @ + 1,
                   !.sent = Append(@, [kind |-> "error", value |-> "null",
                                       elapsed_ms |-> elapsed, at |-> P.now])]
  ELSE IF Truthy(r)
    THEN [Q EXCEPT !.phase = "done", !.evals = @ + 1, !.last_value = r,
                   !.sent = Append(@, [kind |-> "satisfied", value |-> r,
                                       elapsed_ms |-> elapsed, at |-> P.now])]
  ELSE [Q EXCEPT !.phase = "await", !.evals = @ + 1, !.last_value = r,
                 !.due = P.now + P.poll_interval_ms]

\* _poll_condition is called: the first turn runs in the frame of the request
PollStart ==
  /\ poll.phase = "registered"
  /\ \E r \in Readings : poll' = poll_loop(poll, r)
  /\ UNCHANGED <<clientVars, agentVars, drag, procs, call, launch>>

\* the poll timer fires and the coroutine runs its next turn
PollTimerFires ==
  /\ poll.phase = "await"
  /\ \E late \in 0..MaxLate, r \in Readings :
       poll' = poll_loop([poll EXCEPT !.now = poll.due + late], r)
  /\ UNCHANGED <<clientVars, agentVars, drag, procs, call, launch>>

\* the base node is freed between two turns
PollNodeFreed ==
  /\ poll.phase = "await" /\ poll.valid
  /\ poll' = [poll EXCEPT !.valid = FALSE]
  /\ UNCHANGED <<clientVars, agentVars, drag, procs, call, launch>>

PollInit ==
  /\ ClientStart /\ AgentStart(TRUE, FALSE) /\ drag = NoDrag /\ procs = NoProcs /\ call = NoCall /\ launch = NoLaunch
  /\ \E t \in TimeoutParams, i \in Intervals :
       /\ t = <<>> => i \in LongIntervals
       /\ poll = [wait_for_condition_start(timeout_ms_param(t), i)
                    EXCEPT !.bridgeTimeout = bridgeTimeout(t)]

PollNext == PollStart \/ PollTimerFires \/ PollNodeFreed

PollSpec == PollInit /\ [][PollNext]_vars

\* ------------------------------------------------ send_mouse_drag, event by event
\* _do_mouse_drag with the events it hands to Input.parse_input_event.  The
\* drag goes from from_pos to to_pos; a position is written as the pair
\* <<i, steps>> of the weight i / steps given to lerp, so that <<0, steps>> is
\* from_pos and <<steps, steps>> is to_pos.
MaxDuration == 100
Durations == -16..MaxDuration

\* a / b of two GDScript ints: the quotient truncated towards zero
int_div(a, b) == IF a >= 0 THEN a \div b ELSE -((-a) \div b)

Event(kind, i, steps) == [kind |-> kind, pos |-> <<i, steps>>]

\* _handle_send_mouse_drag from the registration on, for a request that passed
\* the checks
send_mouse_drag_start(duration) ==
  [NoDrag EXCEPT !.phase = "registered", !.duration_ms = duration]

\* _do_mouse_drag up to its first await: the move to the start, the press, the
\* number of steps and the first motion event
do_mouse_drag_events(D) ==
  LET steps == max(1, int_div(D.duration_ms, 16)) IN
  [D EXCEPT !.phase = "await", !.steps = steps, !.i = 1,
            !.events = <<Event("move", 0, steps), Event("press", 0, steps),
                         Event("motion", 1, steps)>>]

\* the loop of _do_mouse_drag ending one turn early
drag_resume_short(D) ==
  IF D.i + 1 < D.steps
  THEN [D EXCEPT !.i = @ + 1, !.events = Append(@, Event("motion", D.i + 1, D.steps))]
  ELSE [D EXCEPT !.phase = "done", !.sent = @ + 1,
                 !.events = Append(@, Event("release", D.steps, D.steps))]

\* _do_mouse_drag resumed by its 16 ms timer: the next turn of the loop, or,
\* after the last one, the release at to_pos and the response
drag_resume(D) ==
  IF D.i < D.steps
  THEN [D EXCEPT !.i = @ + 1, !.events = Append(@, Event("motion", D.i + 1, D.steps))]
  ELSE [D EXCEPT !.phase = "done", !.sent = @ + 1,
                 !.events = Append(@, Event("release", D.steps, D.steps))]

\* _do_mouse_drag is called
DragStart ==
  /\ drag.phase = "registered"
  /\ drag' = do_mouse_drag_events(drag)
  /\ UNCHANGED <<clientVars, agentVars, poll, procs, call, launch>>

\* the 16 ms timer of the drag fires
DragTimerFires ==
  /\ drag.phase = "await"
  /\ drag' = drag_resume(drag)
  /\ UNCHANGED <<clientVars, agentVars, poll, procs, call, launch>>

DragInit ==
  /\ ClientStart /\ AgentStart(FALSE, FALSE) /\ poll = NoPoll /\ procs = NoProcs /\ call = NoCall /\ launch = NoLaunch
  /\ \E d \in Durations : drag = send_mouse_drag_start(d)

DragNext == DragStart \/ DragTimerFires

DragSpec == DragInit /\ [][DragNext]_vars

\* --------------------------------------------------------- process management
\* the processes spawned so far; spawn() numbers them in order
Spawned(P) == {p \in Pids : P.status[p] # "none"}

\* ChildProcess.kill(): the signal ends a running process, whose exit event comes
\* later; a process that was killed or has exited is left as it is
kill(P, p) ==
  IF p # 0 /\ P.status[p] = "running" THEN [P EXCEPT !.status[p] = "killed"] ELSE P

\* spawn(): the next process runs
spawn(P, p, tool) == [P EXCEPT !.status[p] = "running", !.by[p] = tool]

\* ServerContext.setActiveProcess: the slot that getActiveProcess and stop_project
\* read takes the record it is given
setActiveProcess(P, p) == [P EXCEPT !.activeProcess = p]

\* ProjectOperations.handleRunProject
handleRunProject(P, ok) ==
  IF ~ok THEN [P EXCEPT !.result = "run_project:error"]
  ELSE LET p == Cardinality(Spawned(P)) + 1
       IN  [spawn(kill(P, P.activeProcess), p, "run_project")
              EXCEPT !.activeProcess = p, !.result = "run_project:started"]

\* handleRunProjectWithBridge up to the first await of its promise
handleRunProjectWithBridge(P, ok) ==
  IF ~ok THEN [P EXCEPT !.result = "run_project_with_bridge:error"]
  ELSE LET p == Cardinality(Spawned(P)) + 1
       IN  [setActiveProcess(spawn(P, p, "run_project_with_bridge"), p)
              EXCEPT !.result = "run_project_with_bridge:spawned"]

\* ProjectOperations.handleStopProject
handleStopProject(P) ==
  IF P.activeProcess = 0 THEN [P EXCEPT !.result = "stop_project:error"]
  ELSE [kill(P, P.activeProcess) EXCEPT !.activeProcess = 0, !.result = "stop_project:stopped"]

\* ProjectOperations.handleGetDebugOutput
handleGetDebugOutput(P) ==
  IF P.activeProcess = 0 THEN [P EXCEPT !.result = "get_debug_output:error"]
  ELSE [P EXCEPT !.result = "get_debug_output:output"]

\* an exit listener that clears the slot whichever process it holds
on_exit_unchecked(P, p) ==
  LET Q == [P EXCEPT !.status[p] = "exited", !.result = "exit"]
  IN  IF P.by[p] = "run_project"
      THEN [Q EXCEPT !.activeProcess = 0]
      ELSE [Q EXCEPT !.settled[p] = TRUE]

\* the error event of process p (it could not be spawned) and the listener its
\* tool installed
on_error(P, p) ==
  LET Q == [P EXCEPT !.status[p] = "failed", !.result = "error"]
  IN  IF P.by[p] = "run_project"
      THEN IF Q.activeProcess = p THEN [Q EXCEPT !.activeProcess = 0] ELSE Q
      ELSE [Q EXCEPT !.settled[p] = TRUE]

\* the exit event of process p and the listener its tool installed
on_exit(P, p) ==
  LET Q == [P EXCEPT !.status[p] = "exited", !.result = "exit"]
  IN  IF P.by[p] = "run_project"
      THEN IF Q.activeProcess = p THEN [Q EXCEPT !.activeProcess = 0] ELSE Q
      ELSE [Q EXCEPT !.settled[p] = TRUE]

\* the timeoutTimer of run_project_with_bridge
timeoutTimer(P, p) == [kill(P, p) EXCEPT !.settled[p] = TRUE, !.result = "timeout"]

\* the stdout listener of run_project_with_bridge settles the call
on_stdout(P, p) == [P EXCEPT !.settled[p] = TRUE, !.result = "settled"]

RunProject ==
  /\ Cardinality(Spawned(procs)) < MaxProcesses
  /\ \E ok \in BOOLEAN : procs' = handleRunProject(procs, ok)
  /\ UNCHANGED <<clientVars, agentVars, poll, drag, call, launch>>

RunProjectWithBridge ==
  /\ Cardinality(Spawned(procs)) < MaxProcesses
  /\ \E ok \in BOOLEAN : procs' = handleRunProjectWithBridge(procs, ok)
  /\ UNCHANGED <<clientVars, agentVars, poll, drag, call, launch>>

StopProject ==
  /\ procs' = handleStopProject(procs)
  /\ UNCHANGED <<clientVars, agentVars, poll, drag, call, launch>>

GetDebugOutput ==
  /\ procs' = handleGetDebugOutput(procs)
  /\ UNCHANGED <<clientVars, agentVars, poll, drag, call, launch>>

ProcessExit(p) ==
  /\ procs.status[p] \in {"running", "killed"}
  /\ procs' = on_exit(procs, p)
  /\ UNCHANGED <<clientVars, agentVars, poll, drag, call, launch>>

ProcessError(p) ==
  /\ procs.status[p] = "running"
  /\ procs' = on_error(procs, p)
  /\ UNCHANGED <<clientVars, agentVars, poll, drag, call, launch>>

BridgeTimeout(p) ==
  /\ procs.by[p] = "run_project_with_bridge" /\ ~procs.settled[p]
  /\ procs' = timeoutTimer(procs, p)
  /\ UNCHANGED <<clientVars, agentVars, poll, drag, call, launch>>

BridgeStdout(p) ==
  /\ procs.by[p] = "run_project_with_bridge" /\ ~procs.settled[p]
  /\ procs.status[p] = "running"
  /\ procs' = on_stdout(procs, p)
  /\ UNCHANGED <<clientVars, agentVars, poll, drag, call, launch>>

ProcInit == ClientStart /\ AgentStart(FALSE, FALSE) /\ SideStart

ProcNext ==
  \/ RunProject
  \/ RunProjectWithBridge
  \/ StopProject
  \/ GetDebugOutput
  \/ \E p \in Pids : ProcessExit(p) \/ ProcessError(p) \/ BridgeTimeout(p) \/ BridgeStdout(p)

ProcSpec == ProcInit /\ [][ProcNext]_vars

\* ------------------------------------------------------------ client claims
Settled(r) == req[r].st \in {"resolved", "rejected"}

\* C2: every promise send() returned while connected has resolve/reject invoked at
\* most once and, timers being fair, is eventually settled.
C2_SettledExactlyOnce ==
  /\ [](\A r \in ReqIds : req[r].calls <= 1)
  /\ \A r \in ReqIds : (req[r].st = "pending") ~> Settled(r)

\* C3: a message that is malformed, has no id, or whose id is not in the pending table
\* (a late response after the timer fired included) settles nothing, leaves the table
\* as it was, and lets no exception escape handleMessage.
C3_UnmatchedIgnored ==
  [][(last'.op = "message" /\ last'.res \notin {"result", "error"})
       => (req' = req /\ pendingRequests' = pendingRequests /\ ~uncaught')]_clientVars

\* C4: a response carrying id r settles the promise of r, with that response's result
\* or error, in the step it arrives, whatever else is outstanding, and leaves every
\* other request's entry, timer and promise as they were.
C4_CorrelatedById ==
  [][\A r \in ReqIds :
       (last'.op = "message" /\ last'.res \in {"result", "error"} /\ last'.arg = r
        /\ r \in pendingRequests)
       => /\ r \notin pendingRequests'
          /\ req'[r].st = (IF last'.res = "result" THEN "resolved" ELSE "rejected")
          /\ req'[r].by = r
          /\ req'[r].calls = 1
          /\ ~req'[r].timer
          /\ \A x \in ReqIds \ {r} :
               req'[x] = req[x] /\ (x \in pendingRequests' <=> x \in pendingRequests)]_clientVars

\* C4 witness: a response has settled a request while an older one is still outstanding
C4_Witness ==
  /\ last.op = "message" /\ last.res = "result"
  /\ \E x \in pendingRequests : x < last.arg /\ req[x].timer
  /\ req[last.arg].st = "resolved"

\* C6: whenever a socket that had opened emits close or error to the client, the
\* pending table is empty afterwards.
C6_LossRejectsAll ==
  (last.op = "lost" /\ last.res # "none") => pendingRequests = {}

C8_RejectReleasesSocket ==
  [][\A c \in Sockets :
       (conn[c].outcome = "pending" /\ conn'[c].outcome = "rejected")
       => /\ sock'[c].state \in {"CLOSING", "CLOSED"}
          /\ (ws' = 0 \/ sock'[ws'].state # "OPEN")]_clientVars

\* the tags the claim requires for each gated tool
RequiredTags(m) ==
  IF m = "evaluate_expression" THEN {"evaluate"}
  ELSE IF m = "wait_for_condition" THEN {"wait", "evaluate"}
  ELSE IF m \in {"wait_for_signal", "wait_frames"} THEN {"wait"}
  ELSE IF m \in InputTools THEN {"input"}
  ELSE IF m \in SceneTreeTools THEN {"scene_tree"}
  ELSE IF m \in StateTools THEN {"state"}
  ELSE IF m \in ScreenshotTools THEN {"screenshot"}
  ELSE {}

\* C9: a call of a gated tool while isConnected() holds and a required tag is not in
\* the cached capabilities is answered locally and writes nothing to the transport.
C9_GatedLocally ==
  [][\A m \in BridgeTools :
       (ToolCall(m) /\ isConnected(Cur) /\ ~(RequiredTags(m) \subseteq capabilities))
       => (last'.res = "unsupported" /\ wire' = wire /\ pendingRequests' = pendingRequests)]_clientVars

\* ------------------------------------------------------------- agent claims
\* the responses for request id that were written to a peer
Transmitted(id) == {k \in DOMAIN resp[id] : resp[id][k].to # 0}

C5_OrphanGoesNowhere ==
  \A id \in AgentIds : \A k \in Transmitted(id) : resp[id][k].to = origin[id]

\* the requests the unsafe-mode flag guards
UnsafeOnly(pkt) ==
  /\ pkt.kind = "request"
  /\ \/ pkt.method \in {"evaluate_expression", "wait_for_condition"}
     \/ pkt.method = "call_method" /\ pkt.p.b = "blocked"

\* C10: with the unsafe-mode flag unset, a request for evaluate_expression, for
\* wait_for_condition, or for call_method naming a blocked method is answered with
\* error -32001 whatever its other parameters are.
C10_UnsafeGateFirst ==
  [][\A pkt \in Packets :
       (~unsafe_mode /\ UnsafeOnly(pkt) /\ HandlePacket(pkt))
       => resp'[pkt.id] = <<[to |-> ws_peer, code |-> -32001, res |-> "error",
                             evals |-> 0]>>]_agentVars

\* C11: while the unsafe-mode flag is unset no step of the agent executes a
\* caller-supplied expression or invokes a method of _BLOCKED_METHODS for a
\* call_method request, and no step changes the flag.
C11_FlagGuardsExecution ==
  [][/\ unsafe_mode' = unsafe_mode
     /\ ~unsafe_mode => alast'.ran = {}]_agentVars

\* the messages _handle_packet turns down before dispatch
Malformed(pkt) == pkt.kind \in {"invalid_json", "not_object", "no_method"}

\* C12: a message that is not valid JSON, is not a JSON object, or has a missing
\* or empty method is answered with one error response whose id is null, -32700
\* for the parse failures and -32600 for the missing method, and reaches no handler.
C12_MalformedAnsweredNullId ==
  [][\A pkt \in Packets :
       (Malformed(pkt) /\ HandlePacket(pkt))
       => /\ alast'.out = <<[id |-> 0, to |-> ws_peer, res |-> "error",
                             code |-> IF pkt.kind = "no_method" THEN -32600 ELSE -32700]>>
          /\ alast'.ran = {}
          /\ pending_responses' = pending_responses]_agentVars

\* the connection request id arrived on is no longer open
Gone(id) == origin[id] # 0 /\ peer[origin[id]] # "OPEN"

\* C13: on an open connection every inbound message is answered: a message
\* without an id in the step that handles it, a message with an id by exactly
\* one response, eventually, unless its connection goes away first.
C13_EveryMessageAnswered ==
  /\ [][\A pkt \in Packets :
          (pkt.id = 0 /\ HandlePacket(pkt))
          => (Len(alast'.out) = 1 /\ alast'.out[1].to = ws_peer)]_agentVars
  /\ \A i \in AgentIds :
       (co[i].st # "unused")
         ~> (Cardinality(Transmitted(i)) = 1 \/ Gone(i))

\* C14: a wait_for_condition that answers with a timeout has evaluated its
\* predicate at least once before, however short its timeout_ms (a timeout_ms
\* below one poll interval is over at the first or at the second turn of the loop).
C14_EvaluatedBeforeTimeout ==
  \A id \in AgentIds : \A k \in DOMAIN resp[id] :
    resp[id][k].res = "timeout" => resp[id][k].evals >= 1

\* C15: when the node a pending wait_for_condition or wait_for_signal holds has
\* been freed, the next turn of its loop answers -32603, evaluates nothing and
\* sends neither a success nor a timeout.
C15_FreedNodeIsHardError ==
  [][\A id \in AgentIds :
       (alast'.op = "timer" /\ alast'.id = id /\ ~co[id].valid
        /\ co[id].kind \in {"wait_for_condition", "wait_for_signal"})
       => /\ Len(alast'.out) = 1
          /\ alast'.out[1].id = id /\ alast'.out[1].code = -32603
          /\ alast'.ran = {}]_agentVars

\* C16: a response of an asynchronous handler is produced by one step, which ends
\* the handler; whatever fires afterwards produces nothing for that id and leaves
\* its place in the pending table alone; and no lambda of a finished
\* wait_for_signal is still connected to its signal.
C16_OneTerminalTrigger ==
  /\ [](\A id \in AgentIds : co[id].st = "done" => ~co[id].listening)
  /\ [][\A id \in AgentIds :
          /\ Len(resp'[id]) > Len(resp[id]) => (Len(resp'[id]) = 1 /\ co'[id].st = "done")
          /\ co[id].st = "done"
             => /\ resp'[id] = resp[id]
                /\ id \in pending_responses' <=> id \in pending_responses
                /\ \A k \in DOMAIN alast'.out : alast'.out[k].id # id]_agentVars

\* C16 witness: a wait_for_signal has just ended by its timeout after the signal
\* had been emitted, while another request's response was produced by its own timer
C16_Witness ==
  /\ alast.op = "timer" /\ alast.out # <<>> /\ alast.out[1].res = "not_received"
  /\ co[alast.id].st = "done" /\ ~co[alast.id].listening
  /\ \E j \in AgentIds \ {alast.id} :
       co[j].st = "done" /\ Len(resp[j]) = 1 /\ resp[j][1].res = "satisfied"
       /\ resp[j][1].evals >= 2

\* C17: right after _process has accepted a new connection in place of another,
\* no id that was registered by a request of the superseded connection is in
\* the pending table.
C17_AcceptClearsPending ==
  [][(alast'.op = "accept" /\ ws_peer # 0 /\ ws_peer' # 0)
     => \A id \in pending_responses' : origin[id] # ws_peer]_agentVars

\* C18: an id is in the pending table exactly while an asynchronous handler
\* working on it is suspended, and, frames and timers being delivered, every id
\* in the table eventually leaves it.
C18_PendingWhileInFlight ==
  /\ [](\A id \in AgentIds : id \in pending_responses <=> co[id].st = "await")
  /\ \A id \in AgentIds : (id \in pending_responses) ~> (id \notin pending_responses)

C20_DisconnectIdempotent ==
  /\ [][(Disconnect /\ ws = 0 /\ pendingRequests = {})
         => UNCHANGED <<ws, sock, conn, pendingRequests, req, capabilities, wire,
                        micro, uncaught>>]_clientVars
  /\ [](disconnect(disconnect(Cur)) = disconnect(Cur))

\* the peers whose connection the agent has neither closed nor seen closed
ActivePeers == {p \in Peers : peer[p] \in {"CONNECTING", "OPEN"}}

\* C21: the agent never has more than one active peer, the active one being
\* _ws_peer (the accept closes the previous peer as it installs the new one);
\* a packet is only read from the current, open peer and a response is only
\* written to it.
C21_SinglePeer ==
  /\ [](ActivePeers \subseteq {ws_peer} /\ Cardinality(ActivePeers) <= 1)
  /\ [][/\ alast'.op = "packet" => (ws_peer # 0 /\ peer[ws_peer] = "OPEN" /\ ws_peer' = ws_peer)
         /\ \A k \in DOMAIN alast'.out :
              alast'.out[k].to # 0
              => (alast'.out[k].to = ws_peer /\ peer[ws_peer] = "OPEN")]_agentVars

\* C21 witness: a second connection has replaced the first, which is closed, and
\* a request read from the second has just been answered to it
C21_Witness ==
  /\ ws_peer = 2 /\ peer[1] = "CLOSED" /\ peer[2] = "OPEN"
  /\ alast.op = "packet" /\ alast.id # 0 /\ origin[alast.id] = 2
  /\ alast.out # <<>> /\ alast.out[1].to = 2

\* C22: with operations pending, a synchronous request is answered by the step
\* that reads it, to the current peer, and that step neither resumes nor ends
\* any pending operation.
C22_NoHandlerBlocks ==
  [][((\E j \in AgentIds : co[j].st = "await") /\ alast'.op = "packet" /\ alast'.sync)
     => /\ Len(alast'.out) = 1
        /\ alast'.out[1].id = alast'.id /\ alast'.out[1].to = ws_peer
        /\ co'[alast'.id].st = "done"
        /\ pending_responses' = pending_responses
        /\ \A j \in AgentIds \ {alast'.id} : co'[j] = co[j] /\ resp'[j] = resp[j]]_agentVars

\* C22 witness: a request has just been answered in the step that read it while
\* a wait_for_condition with periods left is still pending
C22_Witness ==
  /\ alast.op = "packet" /\ alast.sync /\ alast.out # <<>>
  /\ alast.out[1].to # 0 /\ alast.out[1].code = 0
  /\ co[alast.id].st = "done"
  /\ \E j \in pending_responses \ {alast.id} :
       co[j].kind = "wait_for_condition" /\ co[j].left = MaxTicks /\ resp[j] = <<>>

\* C23: a tap or a click is answered only when its release event has been
\* injected: no request that has its response still has its release due.
C23_ReleaseBeforeResponse ==
  \A id \in AgentIds : resp[id] # <<>> => co[id].release # "due"

\* C24: a wait_for_condition whose predicate never becomes truthy and whose
\* node stays valid sends one response, the timeout, which reports an elapsed
\* time of at least timeout_ms and is sent no later than timeout_ms plus one
\* requested poll interval after the registration.
C24_TimeoutWithinOneInterval ==
  (poll.phase = "done" /\ poll.valid /\ poll.last_value \in {"null", "false"}
   /\ poll.reading # "failed")
  => /\ Len(poll.sent) = 1
     /\ poll.sent[1].kind = "timeout"
     /\ poll.sent[1].elapsed_ms >= poll.timeout_ms
     /\ poll.sent[1].at <= poll.timeout_ms + poll.requested

\* C25: every turn of the poll that comes before the timeout, on a valid node,
\* evaluates the predicate; a truthy evaluation is answered at once with
\* satisfied and that turn's value, whatever earlier turns read, and a falsy
\* one sends nothing and waits for the next turn.
C25_FreshEvaluation ==
  [][(poll.phase \in {"registered", "await"} /\ poll'.valid
      /\ poll'.now < poll.timeout_ms)
     => /\ poll'.evals = poll.evals + 1
        /\ Truthy(poll'.reading)
           => /\ poll'.phase = "done"
              /\ poll'.sent = <<[kind |-> "satisfied", value |-> poll'.reading,
                                 elapsed_ms |-> poll'.now, at |-> poll'.now]>>
        /\ poll'.reading = "false"
           => poll'.phase = "await" /\ poll'.sent = <<>>]_poll

\* C25 witness: satisfied on the third turn, before the timeout, after two
\* falsy readings
C25_Witness ==
  /\ poll.phase = "done" /\ poll.evals = 3
  /\ poll.sent # <<>> /\ poll.sent[1].kind = "satisfied" /\ poll.sent[1].value = "two"
  /\ poll.sent[1].elapsed_ms < poll.timeout_ms

\* C26: a wait_for_signal whose signal has been emitted answers that the signal
\* was received (with the emitted arguments and the elapsed time).
C26_SignalReported ==
  [][\A id \in AgentIds :
       (co[id].kind = "wait_for_signal" /\ co[id].heard /\ co[id].valid
        /\ resp'[id] # resp[id])
       => resp'[id][1].res = "received"]_agentVars

\* the methods the claim calls wait-tagged
WaitTagged == {"wait_frames", "wait_for_signal", "wait_for_condition"}

\* C27 as stated: with the capability set [input, scene_tree, state, wait]
\* cached, a call of wait_frames, wait_for_signal or wait_for_condition on a
\* connected client passes the local check and is written to the transport.
C27_WaitToolsPass ==
  [][(last'.op = "tool" /\ last'.tool \in WaitTagged
      /\ isConnected(Cur) /\ capabilities = BaseCaps)
     => (last'.res = "send" /\ wire' # wire)]_clientVars

\* C27 amended: with that set cached, wait_frames and wait_for_signal pass the
\* local check and are written to the transport, and wait_for_condition, which
\* also needs 'evaluate', is rejected locally with nothing written; with
\* 'evaluate' in the set as well, all three are written.
C27_WaitToolsPassWithTheirTags ==
  [][(last'.op = "tool" /\ last'.tool \in WaitTagged /\ isConnected(Cur)
      /\ "wait" \in capabilities)
     => IF last'.tool = "wait_for_condition" /\ "evaluate" \notin capabilities
        THEN last'.res = "unsupported" /\ wire' = wire
             /\ pendingRequests' = pendingRequests
        ELSE last'.res = "send" /\ wire' # wire]_clientVars

\* C27 witness: wait_for_signal has just been written to the transport with
\* [input, scene_tree, state, wait] cached
C27_Witness ==
  /\ last.op = "tool" /\ last.tool = "wait_for_signal" /\ last.res = "send"
  /\ capabilities = BaseCaps
  /\ \E r \in pendingRequests : req[r].owner = 0 /\ req[r].sock = ws

\* floor(a / 16) as the claim writes it
floor16(a) == a \div 16

\* the events the claim lists for a drag of N motion events
Expected(N) ==
  <<Event("move", 0, N), Event("press", 0, N)>>
  \o [i \in 1..N |-> Event("motion", i, N)]
  \o <<Event("release", N, N)>>

\* C28: a drag of duration_ms = d injects the move to the start, the press,
\* N = max(1, floor(d/16)) motion events at the weights 1/N .. N/N and the
\* release at the destination, in this order, and then sends one response; at
\* most one motion event is injected per resumption, and nothing is sent before
\* the release.
C28_DragSequence ==
  /\ [](drag.phase = "done"
         => /\ drag.events = Expected(max(1, floor16(drag.duration_ms)))
            /\ drag.sent = 1)
  /\ [](drag.phase # "done" => drag.sent = 0)
  /\ [][drag.phase = "await"
         => Len(SelectSeq(drag'.events, LAMBDA e : e.kind = "motion"))
            <= Len(SelectSeq(drag.events, LAMBDA e : e.kind = "motion")) + 1]_drag

\* C28 witness: a drag of 100 ms has ended with its six motion events
C28_Witness ==
  /\ drag.phase = "done" /\ drag.duration_ms = 100 /\ drag.sent = 1
  /\ Len(drag.events) = 9 /\ drag.events[8] = Event("motion", 6, 6)
  /\ drag.events[9].kind = "release"

\* the requests written on socket s
WrittenOn(s) == {r \in ReqIds : req[r].st # "unused" /\ req[r].sock = s}

\* C29: the first request written on a socket is the hello of a connect() call;
\* the result of a hello becomes the cached capability set; and a cached set
\* changes only by being cleared, by disconnect() or by the loss of the
\* connection, never by a send, a response or a request timeout.
C29_CapabilitiesFixedPerConnection ==
  /\ [](\A s \in Sockets : \A r \in WrittenOn(s) :
          ((\A x \in WrittenOn(s) : r <= x) => req[r].owner # 0))
  /\ [][/\ ((last'.op = "helloReaction" /\ Head(micro).ok)
             => capabilities' = Head(micro).caps)
         /\ ((capabilities # NoCaps /\ capabilities' # capabilities)
             => (/\ capabilities' = NoCaps
                 /\ last'.op \in {"disconnect", "connect", "lost",
                                   "helloReaction"}))]_clientVars

\* ------------------------------------------- a timed operation and its client timer
\* One call of a tool whose agent-side duration the caller sets, in clock time:
\* the request is written at 0, the agent answers when the operation is over, and
\* the timer of send() fires after the timeout the tool handler passed.
TimedTools == {"send_key", "send_mouse_drag", "wait_frames", "wait_for_condition",
               "wait_for_signal"}
\* hold_ms, duration_ms, count or timeout_ms as the caller gives it
CallArgs == {1, 100, 300, 3000, 4990, 5000, 5010, 6000}
\* timeoutMs = 5000, the default of BridgeClient.send
DefaultTimeout == 5000
\* the time between two process_frame signals, in ms (60 frames per second)
FrameMs == 16

\* the timeout the tool handler gives bridge.send: handleWaitTool passes
\* bridgeTimeout, handleBridgePassthrough passes none
send_timeout(m, arg) ==
  IF handleE2ETool([Cur EXCEPT !.ws = 1, !.sock[1].state = "OPEN"], m) # "send" THEN 0
  ELSE IF m \in WaitTools THEN bridgeTimeout(<<arg>>)
  ELSE DefaultTimeout

\* the least multiple of step that is at least d
next_turn(d, step) == ((d + step - 1) \div step) * step

\* when the agent sends the response of an operation that runs its full course:
\* the hold timer of a tap, the steps of a drag, count frames, and for the two
\* waits the first turn of the loop at or after timeout_ms (turns are 100 ms
\* apart by default for wait_for_condition, 16 ms for wait_for_signal)
completes_at(m, arg) ==
  CASE m = "send_key" -> arg
    [] m = "send_mouse_drag" -> max(1, int_div(arg, 16)) * 16
    [] m = "wait_frames" -> arg * FrameMs
    [] m = "wait_for_condition" -> next_turn(arg, 100)
    [] OTHER -> next_turn(arg, 16)

\* the tool handler sends the request: send() starts its timer
CallSend ==
  /\ call.phase = "called"
  /\ call' = [call EXCEPT !.phase = "pending",
                          !.timeoutMs = send_timeout(call.tool, call.arg),
                          !.due = completes_at(call.tool, call.arg)]
  /\ UNCHANGED <<clientVars, agentVars, poll, drag, procs, launch>>

\* the agent's response arrives before the timer has fired: handleMessage settles
CallResponse ==
  /\ call.phase = "pending" /\ call.due <= call.timeoutMs
  /\ call' = [call EXCEPT !.phase = "settled", !.outcome = "result"]
  /\ UNCHANGED <<clientVars, agentVars, poll, drag, procs, launch>>

\* the timer of send() fires first: the promise rejects with 'timed out'
CallTimeout ==
  /\ call.phase = "pending" /\ call.timeoutMs <= call.due
  /\ call' = [call EXCEPT !.phase = "late", !.outcome = "timeout"]
  /\ UNCHANGED <<clientVars, agentVars, poll, drag, procs, launch>>

\* the agent's response arrives after the timeout: handleMessage discards it
CallLateResponse ==
  /\ call.phase = "late"
  /\ call' = [call EXCEPT !.phase = "settled"]
  /\ UNCHANGED <<clientVars, agentVars, poll, drag, procs, launch>>

CallInit ==
  /\ ClientStart /\ AgentStart(TRUE, FALSE)
  /\ poll = NoPoll /\ drag = NoDrag /\ procs = NoProcs /\ launch = NoLaunch
  /\ \E m \in TimedTools, a \in CallArgs :
       call = [NoCall EXCEPT !.tool = m, !.arg = a, !.phase = "called"]

CallNext == CallSend \/ CallResponse \/ CallTimeout \/ CallLateResponse

CallSpec == CallInit /\ [][CallNext]_vars

\* ------------------------------------------------- run_project_with_bridge
\* One call of handleRunProjectWithBridge, listener by listener.  bridge.connect
\* is the BridgeClient's; here it only resolves or rejects.

\* backoffDelays.length: the connect attempts of one loop
MaxAttempts == 5
\* what a chunk of the game's stdout holds
Chunks == {"other", "error", "ready", "error+ready"}

\* settle(result) resolving whether or not the call has settled
launch_settle_unguarded(L, result) ==
  [L EXCEPT !.settled = TRUE, !.timer = FALSE, !.resolves = @ + 1, !.result = result]

\* settle(result): the first call clears the timer and resolves the promise
launch_settle(L, result) ==
  IF L.settled THEN L
  ELSE [L EXCEPT !.settled = TRUE, !.timer = FALSE, !.resolves = @ + 1, !.result = result]

\* handleRunProjectWithBridge up to the return of its promise: a failed check
\* answers at once; otherwise the process is spawned and the timer started
launch_start(L, ok) ==
  IF ~ok THEN [L EXCEPT !.phase = "returned", !.resolves = @ + 1, !.result = "invalid"]
  ELSE [L EXCEPT !.phase = "spawned", !.timer = TRUE, !.proc = "running"]

\* the head of the for loop over backoffDelays, and what follows the loop
loop_top(L) ==
  IF L.settled THEN [L EXCEPT !.loop = "over"]
  ELSE IF L.i = MaxAttempts THEN [launch_settle(L, "no_connection") EXCEPT !.loop = "over"]
  ELSE [L EXCEPT !.loop = "attempt", !.i = @ + 1,
                 !.late = IF L.settled THEN @ + 1 ELSE @]

\* proc.stdout.on('data', ...) up to its first await
on_data(L, chunk) ==
  IF chunk \in {"error", "error+ready"} THEN launch_settle(L, "bridge_error")
  ELSE IF chunk = "ready" /\ ~L.settled /\ ~L.connecting
    THEN [L EXCEPT !.connecting = TRUE, !.loops = @ + 1, !.loop = "stabilize"]
  ELSE L

\* the timeoutTimer callback
on_timeout(L) ==
  LET T == [L EXCEPT !.timer = FALSE] IN
  IF T.settled THEN T
  ELSE launch_settle([T EXCEPT !.proc = IF @ = "running" THEN "killed" ELSE @], "timeout")

\* run_project_with_bridge is called
LaunchStart ==
  /\ launch.phase = "none"
  /\ \E ok \in BOOLEAN : launch' = launch_start(launch, ok)
  /\ UNCHANGED <<clientVars, agentVars, poll, drag, procs, call>>

\* a chunk of stdout arrives; the streams may still deliver after the exit event
StdoutData ==
  /\ launch.phase = "spawned" /\ launch.proc # "failed"
  /\ \E chunk \in Chunks : launch' = on_data(launch, chunk)
  /\ UNCHANGED <<clientVars, agentVars, poll, drag, procs, call>>

\* the 500 ms wait before the first attempt is over
StabilizeDone ==
  /\ launch.loop = "stabilize"
  /\ launch' = loop_top(launch)
  /\ UNCHANGED <<clientVars, agentVars, poll, drag, procs, call>>

\* bridge.connect resolves: settle(success) and return
ConnectResolves ==
  /\ launch.loop = "attempt"
  /\ launch' = [launch_settle(launch, "connected") EXCEPT !.loop = "over"]
  /\ UNCHANGED <<clientVars, agentVars, poll, drag, procs, call>>

\* bridge.connect rejects: the catch block starts the backoff delay
ConnectRejects ==
  /\ launch.loop = "attempt"
  /\ launch' = [launch EXCEPT !.loop = "backoff"]
  /\ UNCHANGED <<clientVars, agentVars, poll, drag, procs, call>>

\* the backoff delay is over
BackoffDone ==
  /\ launch.loop = "backoff"
  /\ launch' = loop_top(launch)
  /\ UNCHANGED <<clientVars, agentVars, poll, drag, procs, call>>

\* the overall timeout fires
LaunchTimeout ==
  /\ launch.timer
  /\ launch' = on_timeout(launch)
  /\ UNCHANGED <<clientVars, agentVars, poll, drag, procs, call>>

\* proc.on('exit', ...)
LaunchExit ==
  /\ launch.proc \in {"running", "killed"}
  /\ launch' = launch_settle([launch EXCEPT !.proc = "exited"], "exited")
  /\ UNCHANGED <<clientVars, agentVars, poll, drag, procs, call>>

\* proc.on('error', ...): the process could not be spawned
LaunchError ==
  /\ launch.proc = "running" /\ launch.loop = "none"
  /\ launch' = launch_settle([launch EXCEPT !.proc = "failed"], "spawn_error")
  /\ UNCHANGED <<clientVars, agentVars, poll, drag, procs, call>>

LaunchInit ==
  /\ ClientStart /\ AgentStart(FALSE, FALSE) /\ SideStart

LaunchNext ==
  \/ LaunchStart \/ StdoutData \/ StabilizeDone \/ ConnectResolves \/ ConnectRejects
  \/ BackoffDone \/ LaunchTimeout \/ LaunchExit \/ LaunchError

LaunchSpec == LaunchInit /\ [][LaunchNext]_vars

\* setTimeout callbacks run once their time has come
LaunchFairSpec == LaunchSpec /\ WF_vars(LaunchTimeout)

\* ------------------------------------------------ the client against the agent
\* The client connected to one TestBridge: the hello response it receives is the
\* one _handle_hello builds from the agent's flags, and the agent goes on
\* serving call_method requests between the client's tool calls.

\* the "capabilities" array of _handle_hello, as far as the client's gates read it
\* (csharp_interop and avalonia_input are tags no gate of the client asks for)
hello_capabilities(unsafe, display_headless) ==
  BaseCaps \cup (IF display_headless THEN {} ELSE {"screenshot"})
           \cup (IF unsafe THEN {"evaluate"} ELSE {})

\* the call_method requests the agent receives in this specification
GatePackets ==
  {Packet("request", i, "call_method", Param(a, b, 0, "falsy")) :
     i \in AgentIds, a \in {"self", "ok"}, b \in {"blocked", "set_flag", "ok"}}

\* the agent's answer to a hello reaches the client: handleMessage settles the
\* hello request of a connect call with the result _handle_hello sent
GateHello ==
  /\ Idle
  /\ ws_peer # 0 /\ peer[ws_peer] = "OPEN"
  /\ \E r \in pendingRequests :
       /\ req[r].owner # 0
       /\ sock[req[r].sock].state = "OPEN" /\ sock[req[r].sock].onMessage
       /\ Commit(handleMessage(Cur, Msg("response", r, FALSE,
                                        hello_capabilities(unsafe_mode, headless))))
       /\ last' = [tool |-> "", op |-> "message", arg |-> r, res |-> "result"]

\* the game runs with or without --unsafe, with or without a display; its server
\* has accepted the client's connection
GateInit ==
  /\ ClientStart /\ SideStart
  /\ unsafe_mode \in BOOLEAN /\ headless \in BOOLEAN
  /\ ws_peer = 1
  /\ peer = [p \in Peers |-> IF p = 1 THEN "OPEN" ELSE "none"]
  /\ pending_responses = {}
  /\ co = [i \in AgentIds |-> NoCo]
  /\ resp = [i \in AgentIds |-> <<>>]
  /\ origin = [i \in AgentIds |-> 0]
  /\ alast = NoStep

GateNext ==
  \/ Connect
  \/ \E s \in Sockets : SocketOpen(s)
  \/ GateHello
  \/ HelloReaction
  \/ \E m \in BridgeTools : ToolCall(m)
  \/ \E pkt \in GatePackets : HandlePacket(pkt)

GateSpec == GateInit /\ [][GateNext]_vars

\* ------------------------------------------------- process management claims
\* the spawned processes that have neither been killed nor exited
Active == {p \in Pids : procs.status[p] = "running"}

\* C30: after any sequence of run_project, run_project_with_bridge and stop_project
\* calls and process exits, at most one spawned process has neither been killed
\* nor exited, and the active-process slot refers to it.
C30_OneActiveProcess ==
  /\ Cardinality(Active) <= 1
  /\ \A p \in Active : procs.activeProcess = p

\* ------------------------------------------------------ client claims, continued
\* connect call c has failed or timed out and a later call's connection is established
Superseded(c, s) ==
  /\ c < s
  /\ conn[c].outcome = "rejected"
  /\ conn[s].outcome = "resolved"
  /\ ws = s /\ sock[s].state = "OPEN"

\* the step is the connectionTimeout of call c or the failure of its hello request
LateStepOf(c) ==
  \/ conn[c].timer /\ ~conn'[c].timer /\ last'.op = "connectionTimeout"
  \/ micro # <<>> /\ Head(micro).c = c /\ ~Head(micro).ok /\ last'.op = "helloReaction"

\* C31: once connect call c has failed or timed out, neither its connectionTimeout
\* nor the late failure of its hello request terminates the socket of a connection
\* established by a later call, rejects that connection's pending requests, or
\* clears its cached capabilities.
C31_FailedAttemptIsInert ==
  [][\A c \in Sockets, s \in Sockets :
       (Superseded(c, s) /\ LateStepOf(c))
       => /\ ws' = s
          /\ sock'[s] = sock[s]
          /\ capabilities' = capabilities
          /\ \A r \in pendingRequests : req[r].sock = s => r \in pendingRequests']_clientVars

\* the code the agent answers a request for m with, whatever its parameters, when
\* it refuses it for the reason the client's gate stands for
RefusalCode(m) == IF m \in ScreenshotTools THEN -32002 ELSE -32001

\* the agent, in its current state, refuses every request for m with that code
AgentRefuses(m) ==
  \A p \in Params(m) :
    LET A == dispatch(ACur, 1, m, p) IN
    A.out # <<>> /\ A.out[1].code = RefusalCode(m)

\* C32: with the capability set of the agent's hello cached, a tool call the client
\* rejects locally is one the agent itself would refuse, with -32001 (unsafe mode
\* off) or -32002 (headless); the set the agent reports holds 'evaluate' exactly
\* when its unsafe-mode flag is set, and always 'input', 'scene_tree', 'state', 'wait'.
C32_GatesAgree ==
  [][/\ \A m \in BridgeTools :
          (last'.op = "tool" /\ last'.tool = m /\ last'.res = "unsupported"
             /\ agentVars' = agentVars)
          => AgentRefuses(m)
     /\ (last'.op = "message" /\ last'.res = "result" /\ Len(micro') > Len(micro))
          => LET caps == micro'[Len(micro')].caps IN
             /\ BaseCaps \subseteq caps
             /\ ("evaluate" \in caps) <=> unsafe_mode]_vars

\* C33: the client's timer for a wait_for_condition request runs for the agent's
\* timeout (timeout_ms, or 5000 when none is given) plus 2000 ms, and the agent's
\* timeout response is sent strictly before that timer can fire.
C33_AgentTimeoutFirst ==
  poll.phase # "none"
  => /\ poll.bridgeTimeout = poll.timeout_ms + 2000
     /\ \A k \in 1..Len(poll.sent) :
          poll.sent[k].kind = "timeout" => poll.sent[k].at < poll.bridgeTimeout

\* the duration the caller asked for, in ms
CallerDuration == IF call.tool = "wait_frames" THEN call.arg * FrameMs ELSE call.arg

\* C34: for send_key tap, send_mouse_drag, wait_frames, wait_for_condition and
\* wait_for_signal the timeout the tool handler gives the request is greater than
\* the duration the caller set, and an operation that runs its course on the
\* agent is not reported to the caller as a client timeout.
C34_TimeoutExceedsDuration ==
  call.phase \in {"pending", "late", "settled"}
  => /\ call.timeoutMs > CallerDuration
     /\ call.outcome # "timeout"

\* C35: two consecutive evaluations of one wait_for_condition are at least
\* max(16, poll_interval_ms) ms apart, whatever poll_interval_ms the caller gave
\* (0 and negative values included), and the poll makes at most
\* floor(timeout_ms / 16) + 1 evaluations.
C35_EvaluationsSpaced ==
  [][/\ (poll.evals >= 1 /\ poll'.evals = poll.evals + 1)
          => poll'.now - poll.now >= max(16, poll.requested)
     /\ poll'.evals <= (poll'.timeout_ms \div 16) + 1]_poll

\* C35 witness: a poll asked to run every 0 ms or less has made as many
\* evaluations as the bound allows, three of them in 40 ms
C35_Witness ==
  /\ poll.requested <= 0
  /\ poll.evals = (poll.timeout_ms \div 16) + 1
  /\ poll.evals = 3

\* socket s opens in this step and its open handler calls send('hello') while the
\* client is not connected (this.ws is null or is a socket that is not OPEN)
SendWhileNotConnected(s) ==
  /\ last'.op = "open"
  /\ sock[s].state = "CONNECTING" /\ sock'[s].state = "OPEN" /\ sock[s].onOpen
  /\ ws = 0 \/ (ws # s /\ sock[ws].state # "OPEN")

\* C36: send() called while not connected rejects at once (the rejection is what
\* its caller's await sees next), writes nothing to the transport, starts no
\* timer and leaves the pending table as it was.
C36_SendWhenNotConnected ==
  [][\A s \in Sockets :
       SendWhileNotConnected(s)
       => /\ micro' = Append(micro, [c |-> s, ok |-> FALSE, caps |-> NoCaps])
          /\ wire' = wire
          /\ pendingRequests' = pendingRequests
          /\ req' = req]_clientVars

\* C36 witness: an open handler's send was rejected while another request was
\* pending with its timer running
C36_Witness ==
  /\ last.op = "open"
  /\ micro # <<>> /\ ~Head(micro).ok
  /\ \E r \in pendingRequests : req[r].timer

\* C37: the pending table and the live request timers correspond one to one: a
\* request is in the table exactly while its timer is live, whichever of a
\* response, disconnect(), a connection loss or the timer itself removes it, and
\* no promise has resolve or reject invoked a second time.
C37_TimersMatchPending ==
  \A r \in ReqIds :
    /\ r \in pendingRequests <=> req[r].timer
    /\ r \in pendingRequests => req[r].st = "pending"
    /\ req[r].calls <= 1

\* C37 witness: one request was removed by a response, one by a connection loss,
\* and a third is pending with its timer live
C37_Witness ==
  /\ \E r \in ReqIds : req[r].why = "response" /\ ~req[r].timer
  /\ \E r \in ReqIds : req[r].why \in {"closed", "wserror"} /\ ~req[r].timer
  /\ \E r \in pendingRequests : req[r].timer

\* C38: a run_project_with_bridge call resolves exactly once whichever of the
\* timeout, the error sentinel, the ready sentinel and its connect, the exit and
\* the spawn error come and in whatever order; it starts at most one connect loop
\* however many chunks hold the ready sentinel, and begins no connect attempt once
\* it has settled.
C38_SettlesOnce ==
  /\ [](launch.resolves <= 1 /\ launch.loops <= 1)
  /\ [][launch'.i > launch.i => ~launch.settled]_launch
  /\ (launch.phase # "none") ~> (launch.resolves = 1)

\* C38 witness: the call timed out while the fifth connect attempt of its only
\* loop was in flight, then the attempt succeeded and the process exited
C38_Witness ==
  /\ launch.result = "timeout" /\ launch.resolves = 1
  /\ launch.i = MaxAttempts /\ launch.loop = "over" /\ launch.loops = 1
  /\ launch.proc = "exited"

\* the step is the exit or error event of a process other than the one in the slot
EventOfOther ==
  /\ procs'.result \in {"exit", "error"}
  /\ procs.activeProcess # 0
  /\ procs'.status[procs.activeProcess] = procs.status[procs.activeProcess]

\* the step is a get_debug_output or stop_project call
SlotToolCall ==
  procs'.result \in {"get_debug_output:error", "get_debug_output:output",
                     "stop_project:error", "stop_project:stopped"}

\* C39: the exit or error event of a process that is not the one in the slot
\* leaves the slot as it is; a stop_project call leaves the slot empty; and with
\* the slot empty get_debug_output and stop_project answer with an error and
\* change nothing.
C39_SlotKeptAndCleared ==
  [][/\ EventOfOther => procs'.activeProcess = procs.activeProcess
     /\ procs'.result \in {"stop_project:error", "stop_project:stopped"}
          => procs'.activeProcess = 0
     /\ (SlotToolCall /\ procs.activeProcess = 0)
          => /\ procs'.result \in {"get_debug_output:error", "stop_project:error"}
             /\ procs' = [procs EXCEPT !.result = procs'.result]]_procs

\* C39 witness: a process replaced by run_project has exited while its successor
\* holds the slot and runs
C39_Witness ==
  \E p, q \in Pids :
    /\ p < q /\ procs.by[p] = "run_project" /\ procs.by[q] = "run_project"
    /\ procs.status[p] = "exited" /\ procs.status[q] = "running"
    /\ procs.activeProcess = q /\ procs.result = "exit"

====
